---- MODULE Spec2Model ----
(***************************************************************************)
(* The Submarine operator's reconciliation engine                          *)
(* (submarine-cloud-v2/controller.go): the rate limited work queue of      *)
(* (key, action) items, the informer event handlers, the worker loop, the  *)
(* syncers of the managed children and the Helm sub-release bookkeeping.   *)
(*                                                                         *)
(* The cluster store and the lister caches are separate: listers read the  *)
(* cache, clientset calls act on the store, every write to the store is    *)
(* an event on the watch of the informer of its kind. An informer takes    *)
(* its events one at a time, in order: it brings its lister up and hands   *)
(* a notification to its listener, which calls the handler registered by   *)
(* NewController later, on a goroutine of its own; the lister Get of        *)
(* handleObject and the Add that follows it are two steps. Every lister    *)
(* Get, clientset call and Helm call of a worker is a step of its own, and *)
(* so is every write to c.charts; the other workers, the informers, the    *)
(* listeners and the other actors of the cluster run in between.           *)
(***************************************************************************)
EXTENDS Naturals, Sequences, FiniteSets, TLC

\* ------------------------------------------------------------------ bounds
\* Largest threadiness passed to Run.
NumWorkers == 2
\* External mutations of the store (other actors: kubectl, the Deployment
\* controller) in one behaviour.
MaxExt == 3
\* Parent incarnations (UIDs the store hands out) in one behaviour.
MaxUid == 1
\* The rate limiter counts an item's failures up to this number.
MaxFailures == 2
\* Items the workers take from the queue in one behaviour.
MaxTaken == 2
\* The same where a third item is what a claim is about.
MaxReconciles == 3

\* Notifications the listener of the Submarine informer has not got to when
\* a resync hands it one more.
MaxPending == 2

\* Events the informers of the children take in one behaviour, where they
\* are counted.
MaxDelivered == 2

\* Owned children other actors delete in one behaviour, where the resyncs
\* of the Submarine informer go on for ever.
MaxDeletions == 1

\* ------------------------------------------------------- program constants
ADD == 0
UPDATE == 1
DELETE == 2

serverName == "submarine-server"
databaseName == "submarine-database"
tensorboardName == "submarine-tensorboard"

ErrResourceExists == "ErrResourceExists"
SuccessSynced == "Synced"

\* The sub-releases newSubCharts probes and installs, in source order.
Releases == <<"traefik", "notebook-controller", "tfjob", "pytorchjob">>

\* ------------------------------------------------------------- the cluster
\* No object under a name, a nil pointer, no controller reference, and a
\* replica count left unspecified (a nil *int32).
Absent == [absent |-> TRUE]
Nil == [nil |-> TRUE]
NoOwner == [kind |-> "", name |-> "", uid |-> 0, controller |-> FALSE]
NoReplicas == 0

\* Controller references other actors put on their objects: a ReplicaSet
\* that bears the name of a parent.
ForeignOwners ==
    {[kind |-> "ReplicaSet", name |-> "a", uid |-> 0, controller |-> TRUE]}

\* Parents that may exist: <<namespace, name>>.
ParentKeys == {<<"ns1", "a">>}
Namespaces == {k[1] : k \in ParentKeys}
\* Two parents in one namespace.
SiblingKeys == {<<"ns1", "a">>, <<"ns1", "b">>}
\* Two parents in two namespaces.
TenantKeys == {<<"ns1", "a">>, <<"ns2", "b">>}

\* cache.MetaNamespaceKeyFunc / cache.SplitMetaNamespaceKey: the key is the
\* pair namespace, name (the string "namespace/name" in the source).
MetaNamespaceKeyFunc(ns, name) == <<ns, name>>
SplitNamespace(key) == key[1]
SplitName(key) == key[2]

\* Identity of a child in the store: kind, namespace ("" when the kind is
\* cluster scoped) and name.
Id(kind, ns, name) == [kind |-> kind, ns |-> ns, name |-> name]

ServerServiceAccount(ns) == Id("ServiceAccount", ns, serverName)
ServerService(ns) == Id("Service", ns, serverName)
ServerDeployment(ns) == Id("Deployment", ns, serverName)
DatabasePV(ns) == Id("PersistentVolume", "", databaseName \o "-pv--" \o ns)
DatabasePVC(ns) == Id("PersistentVolumeClaim", ns, databaseName \o "-pvc")
DatabaseDeployment(ns) == Id("Deployment", ns, databaseName)
DatabaseService(ns) == Id("Service", ns, databaseName)
ServerIngress(ns) == Id("Ingress", ns, serverName \o "-ingress")
ServerClusterRole == Id("ClusterRole", "", serverName)
ServerClusterRoleBinding == Id("ClusterRoleBinding", "", serverName)
TensorboardPV(ns) == Id("PersistentVolume", "", tensorboardName \o "-pv--" \o ns)
TensorboardPVC(ns) == Id("PersistentVolumeClaim", ns, tensorboardName \o "-pvc")
TensorboardDeployment(ns) == Id("Deployment", ns, tensorboardName)
TensorboardService(ns) == Id("Service", ns, tensorboardName \o "-service")
TensorboardIngressRoute(ns) == Id("IngressRoute", ns, tensorboardName \o "-ingressroute")

\* An Ingress syncer and an RBAC syncer that look after no object.
IngressOrderEmpty(ns) == <<>>
RBACOrderEmpty(ns) == <<>>

\* The children of each syncer, in the order it goes through them.
ServerOrder(ns) ==
    <<ServerServiceAccount(ns), ServerService(ns), ServerDeployment(ns)>>
DatabaseOrder(ns) ==
    <<DatabasePV(ns), DatabasePVC(ns), DatabaseDeployment(ns), DatabaseService(ns)>>
IngressOrder(ns) == <<ServerIngress(ns)>>
RBACOrder(ns) == <<ServerClusterRole, ServerClusterRoleBinding>>
TensorboardOrder(ns) ==
    <<TensorboardPV(ns), TensorboardPVC(ns), TensorboardDeployment(ns),
      TensorboardService(ns), TensorboardIngressRoute(ns)>>

ServerChildren(ns) == {ServerOrder(ns)[n] : n \in DOMAIN ServerOrder(ns)}
DatabaseChildren(ns) == {DatabaseOrder(ns)[n] : n \in DOMAIN DatabaseOrder(ns)}
ChildrenOf(ns) ==
    ServerChildren(ns) \cup DatabaseChildren(ns) \cup {ServerIngress(ns)}
        \cup {ServerClusterRole, ServerClusterRoleBinding}
        \cup {TensorboardOrder(ns)[n] : n \in DOMAIN TensorboardOrder(ns)}
\* The informers NewController registers handlers with.
ChildKinds ==
    {"Deployment", "Service", "ServiceAccount", "PersistentVolume",
     "PersistentVolumeClaim", "Ingress", "IngressRoute", "ClusterRole",
     "ClusterRoleBinding"}
ChildIds == UNION {ChildrenOf(ns) : ns \in Namespaces}

\* Values the parent spec and the external actors draw from.
ReplicaValues == {1, 2}
StorageTypes == {"host", "foo"}
ValidStorageTypes == {"nfs", "host"}
\* What other actors create and delete under a managed name, and the
\* Deployments they scale and report on.
SquatTargets == {ServerDeployment(ns) : ns \in Namespaces}
DeploymentTargets == {ServerDeployment(ns) : ns \in Namespaces}
                         \cup {DatabaseDeployment(ns) : ns \in Namespaces}
\* Owned children other actors delete: one namespaced, one cluster scoped.
RecreateTargets == {ServerService(ns) : ns \in Namespaces}
                       \cup {DatabasePV(ns) : ns \in Namespaces}
\* Owned children other actors delete while the parent is resynced.
ConvergeTargets == {ServerDeployment(ns) : ns \in Namespaces}
                       \cup {ServerIngress(ns) : ns \in Namespaces}
\* The claims on storage other actors delete.
ClaimTargets == {DatabasePVC(ns) : ns \in Namespaces}
                    \cup {TensorboardPVC(ns) : ns \in Namespaces}

VARIABLES
    parentStore,   \* Submarine objects in the store, by key
    parentCache,   \* submarinesLister's view of them
    childStore,    \* child objects in the store, by Id
    childCache,    \* the child listers' view of them
    watch,         \* per informer: the events of the store it has not seen yet
    notify,        \* per informer: the notifications its handler has not run for
    handling,      \* per child informer: the Submarine handleObject has got from
                   \* the lister and not enqueued yet
    installed,     \* Helm: the <<release, namespace>> pairs installed
    charts,        \* c.charts: handles HelmInstallLocalChart returned
    handles,       \* per handle id, how often HelmUninstall received it
    workqueue,     \* c.workqueue: queue, dirty, processing, shuttingDown,
                   \* the items waiting for their backoff to elapse, and
                   \* the rate limiter's failures per item
    threadiness,   \* the worker count Run was given
    runner,        \* Run: where it is, whether the Submarine informer has
                   \* synced, the workers it launched, the error it returned
    pc,            \* per worker: where it is in processNextWorkItem
    run,           \* per worker: the locals and the record of its reconcile
    ext,           \* writes of other actors so far
    nextUid,       \* the next UID the store hands to a parent
    taken,         \* items the workers have taken from the queue so far
    delivered,     \* events the informers of the children have taken so far
    okRuns,        \* successful reconciles since the store last changed externally
    settled        \* an undisturbed reconcile succeeded and no child changed since

vars == <<parentStore, parentCache, childStore, childCache, watch, notify, handling,
          installed,
          charts, handles, workqueue, threadiness, runner, pc, run, ext, nextUid,
          taken, delivered, okRuns, settled>>

Workers == 1..NumWorkers

\* ------------------------------------------------------------ the objects
\* metav1.NewControllerRef(submarine, ...WithKind("Submarine")).
NewControllerRef(submarine) ==
    [kind |-> "Submarine", name |-> submarine.name, uid |-> submarine.uid,
     controller |-> TRUE]

\* metav1.GetControllerOf: the owner reference with controller = true.
GetControllerOf(obj) ==
    IF obj.owner.controller THEN obj.owner ELSE NoOwner

\* metav1.IsControlledBy: a controller reference whose UID is the owner's.
IsControlledBy(obj, submarine) ==
    /\ GetControllerOf(obj) # NoOwner
    /\ GetControllerOf(obj).uid = submarine.uid

\* A child object built without the controller reference.
OwnedChildBare(submarine) ==
    [owner |-> NoOwner, replicas |-> NoReplicas]

\* The object a syncer hands to Create for a child that has no replica count.
OwnedChild(submarine) ==
    [owner |-> NewControllerRef(submarine), replicas |-> NoReplicas]

newSubmarineServerDeployment(submarine) ==
    [owner |-> NewControllerRef(submarine),
     replicas |-> submarine.spec.serverReplicas]

newSubmarineDatabaseDeployment(submarine) ==
    [owner |-> NewControllerRef(submarine),
     replicas |-> submarine.spec.databaseReplicas]

RV(obj) == IF obj = Absent THEN 0 ELSE obj.rv
\* A resource version no copy of the object in the store or a cache carries.
NextRV(stored, cached) ==
    1 + (IF RV(stored) >= RV(cached) THEN RV(stored) ELSE RV(cached))

\* The store's defaulting of spec.replicas.
DefaultReplicas(id, replicas) ==
    IF id.kind # "Deployment" THEN 0
    ELSE IF replicas = NoReplicas THEN 1 ELSE replicas

\* clientset ...Create(ctx, desired): the stored object. by records the UID
\* of the parent whose reconcile wrote it.
Created(id, desired, submarine, cached) ==
    [owner |-> desired.owner,
     replicas |-> DefaultReplicas(id, desired.replicas),
     avail |-> 0,
     rv |-> NextRV(Absent, cached),
     born |-> NextRV(Absent, cached),
     by |-> submarine.uid]

\* clientset ...Update(ctx, desired): metadata and spec are replaced, the
\* status is the store's. The desired object carries no resource version, so
\* the write is unconditional; one that changes nothing leaves the resource
\* version as it is.
Updated(stored, id, desired, submarine, cached) ==
    IF stored.owner = desired.owner
       /\ stored.replicas = DefaultReplicas(id, desired.replicas)
    THEN stored
    ELSE [stored EXCEPT !.owner = desired.owner,
                        !.replicas = DefaultReplicas(id, desired.replicas),
                        !.rv = NextRV(stored, cached),
                        !.by = submarine.uid]


\* ------------------------------------------------------------ the syncers
WarningExists(id) ==
    [type |-> "Warning", reason |-> ErrResourceExists, name |-> id.name]

\* The object a syncer hands to Create and Update for the child id.
Desired(id, submarine, ns) ==
    IF id = ServerDeployment(ns) THEN newSubmarineServerDeployment(submarine)
    ELSE IF id = DatabaseDeployment(ns) THEN newSubmarineDatabaseDeployment(submarine)
    ELSE OwnedChild(submarine)

\* The replica count the syncer compares the Deployment at hand with: that
\* of the parent's spec for the server and the database Deployments, none
\* for the other children, which have no such check.
Wanted(id, submarine, ns) ==
    IF id = ServerDeployment(ns) THEN submarine.spec.serverReplicas
    ELSE IF id = DatabaseDeployment(ns) THEN submarine.spec.databaseReplicas
    ELSE NoReplicas

\* newSubmarineServerDeployment reads *submarine.Spec.Server.Replicas: with no
\* count specified, building the Deployment for Create panics.
Dereferences(id, submarine, ns) ==
    id = ServerDeployment(ns) /\ submarine.spec.serverReplicas = NoReplicas

\* A replica check that never asks for the Update.
ReconcileReplicasNever(want, obj) == FALSE

\* A replica check that asks for the Update whenever the parent specifies a
\* count.
ReconcileReplicasAlways(want, obj) == want # NoReplicas

\* The replica check after a Deployment: Update when the parent specifies a
\* count and the Deployment at hand has another.
ReconcileReplicas(want, obj) == want # NoReplicas /\ want # obj.replicas

\* What one call of a syncer about a child comes to: the object the store
\* holds afterwards, the object at hand, the error the syncer returns, whether
\* it returns nil early, the call that follows for this child ("done" when
\* there is none), and what was created, updated and recorded.
Outcome(stored) ==
    [st |-> stored, obj |-> Nil, err |-> "", skip |-> FALSE, phase |-> "done",
     created |-> FALSE, updated |-> FALSE, events |-> <<>>]

\* The IsControlledBy check with its warning event, and the replica check.
Checked(a, obj, submarine, id, want) ==
    IF ~IsControlledBy(obj, submarine)
    THEN [a EXCEPT !.err = "NotManaged", !.events = <<WarningExists(id)>>]
    ELSE IF ReconcileReplicas(want, obj)
    THEN [a EXCEPT !.obj = obj, !.phase = "update"]
    ELSE [a EXCEPT !.obj = obj]

\* A syncer that writes the child back to the store whenever the lister has
\* it.
EnsureRewrites(phase, cached, stored, submarine, id, ns) ==
    LET a == Outcome(stored)
    IN  IF phase = "get" /\ cached = Absent THEN [a EXCEPT !.phase = "create"]
        ELSE IF phase = "get" /\ stored # Absent
        THEN [a EXCEPT !.st = [stored EXCEPT !.rv = NextRV(stored, cached)],
                       !.obj = cached]
        ELSE IF phase = "get" THEN [a EXCEPT !.obj = cached]
        ELSE IF stored # Absent THEN [a EXCEPT !.err = "AlreadyExists"]
        ELSE [a EXCEPT
                !.st = Created(id, Desired(id, submarine, ns), submarine, cached),
                !.obj = Created(id, Desired(id, submarine, ns), submarine, cached),
                !.created = TRUE]

\* A syncer that takes over an object another owner controls.
EnsureAdopts(phase, cached, stored, submarine, id, ns) ==
    LET a == Outcome(stored)
        desired == Desired(id, submarine, ns)
    IN  IF phase = "get" /\ cached = Absent THEN [a EXCEPT !.phase = "create"]
        ELSE IF phase = "get" /\ IsControlledBy(cached, submarine)
        THEN [a EXCEPT !.obj = cached]
        ELSE IF phase = "get" THEN [a EXCEPT !.obj = cached, !.phase = "update"]
        ELSE IF phase = "create" /\ stored # Absent
        THEN [a EXCEPT !.err = "AlreadyExists"]
        ELSE IF phase = "create"
        THEN [a EXCEPT !.st = Created(id, desired, submarine, cached),
                       !.obj = Created(id, desired, submarine, cached),
                       !.created = TRUE]
        ELSE IF stored = Absent THEN [a EXCEPT !.err = "NotFound"]
        ELSE [a EXCEPT !.st = Updated(stored, id, desired, submarine, cached),
                       !.obj = Updated(stored, id, desired, submarine, cached),
                       !.updated = TRUE]

\* A syncer whose Create replaces an object the store already holds.
EnsureOverwrites(phase, cached, stored, submarine, id, ns) ==
    LET a == Outcome(stored)
        desired == Desired(id, submarine, ns)
        want == Wanted(id, submarine, ns)
    IN  IF phase = "get" /\ cached = Absent THEN [a EXCEPT !.phase = "create"]
        ELSE IF phase = "get" THEN Checked(a, cached, submarine, id, want)
        ELSE IF phase = "create"
        THEN Checked([a EXCEPT
                        !.st = Created(id, desired, submarine, cached),
                        !.created = TRUE],
                     Created(id, desired, submarine, cached), submarine, id, want)
        ELSE IF stored = Absent THEN [a EXCEPT !.err = "NotFound"]
        ELSE [a EXCEPT !.st = Updated(stored, id, desired, submarine, cached),
                       !.obj = Updated(stored, id, desired, submarine, cached),
                       !.updated = TRUE]

\* One call of a syncer about the child id.
\*   get:    the lister Get. Not found: a PersistentVolume of a storage type
\*           that is neither nfs nor host makes the syncer return nil; the
\*           server Deployment of a parent without a replica count panics
\*           while the object for Create is built; otherwise Create follows.
\*           Found: the IsControlledBy check and the replica check.
\*   create: the clientset Create. The store refuses a name it holds;
\*           otherwise the object is stored and checked like one found.
\*   update: the clientset Update of a Deployment whose replica count
\*           differs. The store refuses a name it does not hold.
Ensure(phase, cached, stored, submarine, id, ns) ==
    LET a == Outcome(stored)
        desired == Desired(id, submarine, ns)
        want == Wanted(id, submarine, ns)
    IN  IF phase = "get"
        THEN IF cached = Absent
             THEN IF /\ id.kind = "PersistentVolume"
                     /\ submarine.spec.storageType \notin ValidStorageTypes
                  THEN [a EXCEPT !.skip = TRUE]
                  ELSE IF Dereferences(id, submarine, ns)
                  THEN [a EXCEPT !.err = "panic"]
                  ELSE [a EXCEPT !.phase = "create"]
             ELSE Checked(a, cached, submarine, id, want)
        ELSE IF phase = "create"
        THEN IF stored # Absent THEN [a EXCEPT !.err = "AlreadyExists"]
             ELSE Checked([a EXCEPT
                             !.st = Created(id, desired, submarine, cached),
                             !.created = TRUE],
                          Created(id, desired, submarine, cached),
                          submarine, id, want)
        ELSE IF stored = Absent THEN [a EXCEPT !.err = "NotFound"]
        ELSE [a EXCEPT !.st = Updated(stored, id, desired, submarine, cached),
                       !.obj = Updated(stored, id, desired, submarine, cached),
                       !.updated = TRUE]

\* A syncHandler that takes no error of a syncer for one.
SyncerFailedNever(a) == FALSE

\* if err != nil { return err } after each syncer.
SyncerFailed(a) == a.err # ""

\* A status copy with the two counts exchanged.
StatusCopySwapped(submarine, serverDeployment, databaseDeployment) ==
    [submarine EXCEPT !.status = [server |-> databaseDeployment.avail,
                                  database |-> serverDeployment.avail]]

\* updateSubmarineStatus: the copy handed to Update.
StatusCopy(submarine, serverDeployment, databaseDeployment) ==
    [submarine EXCEPT !.status = [server |-> serverDeployment.avail,
                                  database |-> databaseDeployment.avail]]

\* Submarines(ns).Update(ctx, copy): the copy carries the UID and resource
\* version the lister gave; the store refuses a stale one.
ParentUpdateError(stored, copy) ==
    IF stored = Absent THEN "NotFound"
    ELSE IF stored.uid # copy.uid \/ stored.rv # copy.rv THEN "Conflict"
    ELSE ""

ParentUpdated(stored, copy, cached) ==
    IF [copy EXCEPT !.rv = stored.rv] = stored THEN stored
    ELSE [copy EXCEPT !.rv = NextRV(stored, cached)]

\* ---------------------------------------------------------- the work queue
\* workqueue.Add: nothing is added once the queue is shutting down; an item
\* already dirty is dropped; one being processed is only marked dirty; any
\* other is marked and appended.
QAdd(q, item) ==
    IF q.shuttingDown THEN q
    ELSE IF item \in q.dirty THEN q
    ELSE IF item \in q.processing THEN [q EXCEPT !.dirty = @ \cup {item}]
    ELSE [q EXCEPT !.dirty = @ \cup {item}, !.queue = Append(@, item)]

\* workqueue.Get, once an item is there.
QGet(q) ==
    [q EXCEPT !.queue = Tail(@),
              !.processing = @ \cup {Head(q.queue)},
              !.dirty = @ \ {Head(q.queue)}]

\* A Done that is never called.
QDoneNever(q, item) == q

\* workqueue.Done: an item marked dirty meanwhile goes back on the queue.
QDone(q, item) ==
    IF item \in q.dirty
    THEN [q EXCEPT !.processing = @ \ {item}, !.queue = Append(@, item)]
    ELSE [q EXCEPT !.processing = @ \ {item}]

\* workqueue.AddRateLimited(item) is AddAfter(item, rateLimiter.When(item)):
\* the rate limiter counts one more failure of the item and gives a backoff
\* that is never zero, and AddAfter hands the item to the waiting loop of the
\* delaying queue unless the queue is shutting down. The item is in neither
\* queue, dirty nor processing until the backoff has elapsed.
QAddRateLimited(q, item) ==
    IF q.shuttingDown
    THEN [q EXCEPT !.failures[item] = IF @ < MaxFailures THEN @ + 1 ELSE @]
    ELSE [q EXCEPT !.failures[item] = IF @ < MaxFailures THEN @ + 1 ELSE @,
                   !.waiting = @ \cup {item}]

\* A Forget that leaves the rate limiter as it is.
QForgetNothing(q, item) == q

\* workqueue.Forget: the rate limiter drops the item's failures.
QForget(q, item) == [q EXCEPT !.failures[item] = 0]

Item(key, action) == [key |-> key, action |-> action]
Items ==
    {Item(k, a) : k \in ParentKeys \cup SiblingKeys \cup TenantKeys,
                  a \in {ADD, UPDATE, DELETE}}

\* enqueueSubmarine(obj, action).
enqueueSubmarine(q, submarine, action) ==
    QAdd(q, Item(MetaNamespaceKeyFunc(submarine.ns, submarine.name), action))

\* cache.DeletedFinalStateUnknown: the tombstone a relist puts in place of a
\* Submarine whose deletion the watch has missed.
DeletedFinalStateUnknown(key, obj) == [Key |-> key, Obj |-> obj]
IsTombstone(obj) == "Obj" \in DOMAIN obj

\* enqueueSubmarine(obj, action) for whatever the informer hands over:
\* cache.MetaNamespaceKeyFunc fails on an object without metadata, the
\* error is handled and nothing is added.
enqueueSubmarineDelta(q, obj, action) ==
    IF IsTombstone(obj) THEN q
    ELSE enqueueSubmarine(q, obj, action)

\* A handleObject that does not look at the kind of the controller.
handleObjectAnyKind(obj, id) ==
    LET object == IF IsTombstone(obj) THEN obj.Obj ELSE obj
        key == <<id.ns, GetControllerOf(object).name>>
    IN  IF GetControllerOf(object) = NoOwner THEN Nil
        ELSE IF key \notin DOMAIN parentCache THEN Nil
        ELSE IF parentCache[key] = Absent THEN Nil
        ELSE parentCache[key]

\* handleObject(obj) up to the return of the lister: a tombstone is
\* unwrapped, the controller reference must be of kind Submarine, and the
\* lister is asked for the Submarine of that name in the namespace of the
\* object. Nil: handleObject has returned and enqueues nothing.
handleObject(obj, id) ==
    LET object == IF IsTombstone(obj) THEN obj.Obj ELSE obj
        key == <<id.ns, GetControllerOf(object).name>>
    IN  IF GetControllerOf(object) = NoOwner THEN Nil
        ELSE IF GetControllerOf(object).kind # "Submarine" THEN Nil
        ELSE IF key \notin DOMAIN parentCache THEN Nil
        ELSE IF parentCache[key] = Absent THEN Nil
        ELSE parentCache[key]


\* --------------------------------------------------------------- the state
EmptyQueue ==
    [queue |-> <<>>, dirty |-> {}, processing |-> {}, shuttingDown |-> FALSE,
     waiting |-> {}, failures |-> [it \in Items |-> 0]]

\* A worker's locals at the start of processNextWorkItem.
NewRun(item) ==
    [item |-> item, sub |-> Nil, serverDeployment |-> Nil,
     databaseDeployment |-> Nil, i |-> 0, phase |-> "get", snap |-> <<>>,
     read |-> FALSE, handle |-> Nil,
     created |-> {}, updated |-> {}, events |-> <<>>, skipped |-> {},
     result |-> "none", err |-> "", clean |-> FALSE, second |-> FALSE]

\* What stays of a reconcile once processNextWorkItem has returned: how it
\* ended, the calls it issued and the events it recorded.
Returned(r, result) ==
    [NewRun(Nil) EXCEPT !.result = result, !.created = r.created,
                        !.updated = r.updated, !.skipped = r.skipped,
                        !.events = r.events, !.err = r.err,
                        !.clean = r.clean, !.second = r.second]

NoEvents == [kind \in ChildKinds \cup {"Submarine"} |-> <<>>]

InitCluster ==
    /\ parentStore = [k \in ParentKeys |-> Absent]
    /\ parentCache = [k \in ParentKeys |-> Absent]
    /\ childStore = [id \in ChildIds |-> Absent]
    /\ childCache = [id \in ChildIds |-> Absent]
    /\ watch = NoEvents
    /\ notify = NoEvents
    /\ handling = [kind \in ChildKinds |-> Nil]
    /\ installed = {}
    /\ charts = <<>>
    /\ handles = <<>>
    /\ workqueue = EmptyQueue
    /\ pc = [w \in Workers |-> "idle"]
    /\ run = [w \in Workers |-> NewRun(Nil)]
    /\ ext = 0
    /\ nextUid = 1
    /\ taken = 0
    /\ delivered = 0
    /\ okRuns = 0
    /\ settled = FALSE

\* Run once the workers are launched and it waits on stopCh.
Serving(n) ==
    [pc |-> "stopCh", synced |-> TRUE, launched |-> n, err |-> FALSE]

\* Run(1, stopCh): one worker.
Init == InitCluster /\ threadiness = 1 /\ runner = Serving(1)

\* Run(NumWorkers, stopCh) at its first statement, the informers started
\* and the initial list of the Submarine informer not yet delivered.
InitRun ==
    /\ InitCluster
    /\ threadiness = NumWorkers
    /\ runner = [pc |-> "WaitForCacheSync", synced |-> FALSE, launched |-> 0,
                 err |-> FALSE]

\* A panic that leaves processNextWorkItem ends the process.
Crashed == \E w \in Workers : pc[w] = "panic"
Active(w) == w <= runner.launched /\ ~Crashed

\* The listers hold everything the store holds.
CaughtUp ==
    /\ parentCache = parentStore
    /\ childCache = childStore
    /\ watch = NoEvents

\* The reconciles other than w's are no longer undisturbed.
Disturbed(r, w) ==
    [v \in Workers |->
        IF v = w THEN r[v] ELSE [r[v] EXCEPT !.clean = FALSE, !.second = FALSE]]

ParentSpecs ==
    [serverReplicas : {NoReplicas, 1}, databaseReplicas : {NoReplicas, 1},
     storageType : StorageTypes]

\* A write to the store is an event on the watch of the informer of the
\* kind: the key or Id written and the object as written (Absent: deleted).
Emit(events, kind, id, obj) ==
    [events EXCEPT ![kind] = Append(@, [id |-> id, obj |-> obj])]

\* The notification an informer hands to its listener once it has brought
\* the lister up: the object the lister held (Absent: an add) and the object
\* it holds now (Absent: a delete). A delete of an object the informer never
\* held is dropped.
Distribute(ns, kind, id, old, new) ==
    IF old = Absent /\ new = Absent THEN ns
    ELSE [ns EXCEPT ![kind] = Append(@, [id |-> id, old |-> old, new |-> new])]

\* ------------------------------------------------- the world outside
\* Other actors write to the store whenever they choose, whatever the
\* workers and the informers are in the middle of.
CreateParent(k, spec) ==
    /\ ~Crashed
    /\ parentStore[k] = Absent
    /\ nextUid <= MaxUid
    /\ LET new == [ns |-> k[1], name |-> k[2], uid |-> nextUid, spec |-> spec,
                   status |-> [server |-> 0, database |-> 0],
                   rv |-> NextRV(Absent, parentCache[k])]
       IN  /\ parentStore' = [parentStore EXCEPT ![k] = new]
           /\ watch' = IF runner.synced THEN Emit(watch, "Submarine", k, new)
                       ELSE watch
    /\ nextUid' = nextUid + 1
    /\ run' = Disturbed(run, 0)
    /\ okRuns' = 0
    /\ settled' = FALSE
    /\ UNCHANGED <<parentCache, childStore, childCache, notify, handling, installed, charts,
                   handles, workqueue, threadiness, runner, pc, ext, taken, delivered>>

\* A write of another actor to the Submarine under k.
WriteParent(k, new) ==
    /\ ~Crashed
    /\ parentStore[k] # Absent
    /\ parentStore' = [parentStore EXCEPT ![k] = new]
    /\ watch' = IF runner.synced THEN Emit(watch, "Submarine", k, new) ELSE watch
    /\ run' = Disturbed(run, 0)
    /\ okRuns' = 0
    /\ settled' = FALSE
    /\ UNCHANGED <<parentCache, childStore, childCache, notify, handling, installed, charts,
                   handles, workqueue, threadiness, runner, pc, nextUid, taken, delivered>>

\* The parent's spec.storage.type is edited.
UpdateParentStorage(k, t) ==
    /\ ext < MaxExt
    /\ parentStore[k] # Absent
    /\ parentStore[k].spec.storageType # t
    /\ WriteParent(k, [parentStore[k] EXCEPT
                         !.spec.storageType = t,
                         !.rv = NextRV(parentStore[k], parentCache[k])])
    /\ ext' = ext + 1

DeleteParent(k) ==
    /\ WriteParent(k, Absent)
    /\ ext' = ext

ExtWrite(id, obj) ==
    /\ ~Crashed
    /\ ext < MaxExt
    /\ childStore' = [childStore EXCEPT ![id] = obj]
    /\ watch' = Emit(watch, id.kind, id, obj)
    /\ ext' = ext + 1
    /\ run' = Disturbed(run, 0)
    /\ okRuns' = 0
    /\ settled' = FALSE
    /\ UNCHANGED <<parentStore, parentCache, childCache, notify, handling, installed, charts,
                   handles, workqueue, threadiness, runner, pc, nextUid, taken, delivered>>

\* Another actor creates an object under a managed name, without owner.
ExtCreate(id) ==
    /\ childStore[id] = Absent
    /\ ExtWrite(id, [owner |-> NoOwner, replicas |-> DefaultReplicas(id, NoReplicas),
                     avail |-> 0, rv |-> NextRV(Absent, childCache[id]),
                     born |-> NextRV(Absent, childCache[id]), by |-> 0])

\* Another actor creates an object under a managed name that a controller of
\* another kind owns.
ExtCreateControlled(id, owner) ==
    /\ childStore[id] = Absent
    /\ ExtWrite(id, [owner |-> owner, replicas |-> DefaultReplicas(id, NoReplicas),
                     avail |-> 0, rv |-> NextRV(Absent, childCache[id]),
                     born |-> NextRV(Absent, childCache[id]), by |-> 0])

ExtDelete(id) ==
    /\ childStore[id] # Absent
    /\ ExtWrite(id, Absent)

\* Another actor patches spec.replicas of a Deployment.
ExtScale(id, n) ==
    /\ childStore[id] # Absent
    /\ childStore[id].replicas # n
    /\ ExtWrite(id, [childStore[id] EXCEPT
                       !.replicas = n,
                       !.rv = NextRV(childStore[id], childCache[id])])

\* The Deployment controller reports status.availableReplicas.
ExtAvail(id, n) ==
    /\ childStore[id] # Absent
    /\ childStore[id].avail # n
    /\ ExtWrite(id, [childStore[id] EXCEPT
                       !.avail = n,
                       !.rv = NextRV(childStore[id], childCache[id])])

\* ------------------------------------------------------- the informers
\* The Submarine informer takes the next event of its watch: the lister is
\* brought up and the notification is handed to the listener.
SyncParent ==
    /\ ~Crashed
    /\ runner.synced
    /\ watch["Submarine"] # <<>>
    /\ LET k == Head(watch["Submarine"]).id
           new == Head(watch["Submarine"]).obj
       IN  /\ parentCache' = [parentCache EXCEPT ![k] = new]
           /\ notify' = Distribute(notify, "Submarine", k, parentCache[k], new)
    /\ watch' = [watch EXCEPT !["Submarine"] = Tail(@)]
    /\ UNCHANGED <<handling, parentStore, childStore, childCache, installed, charts,
                   handles, workqueue, threadiness, runner, pc, run, ext, nextUid,
                   okRuns, settled, taken, delivered>>

\* The Submarine informer has lost its watch and lists again: the events of
\* k it has not seen are gone, and a Submarine the lister holds and the
\* store no longer does leaves the lister; the notification of the delete
\* carries a tombstone around the last object known.
RelistParent(k) ==
    /\ ~Crashed
    /\ runner.synced
    /\ parentCache[k] # Absent
    /\ parentStore[k] = Absent
    /\ parentCache' = [parentCache EXCEPT ![k] = Absent]
    /\ watch' = [watch EXCEPT !["Submarine"] = SelectSeq(@, LAMBDA e : e.id # k)]
    /\ notify' = Distribute(notify, "Submarine", k,
           DeletedFinalStateUnknown(MetaNamespaceKeyFunc(k[1], k[2]), parentCache[k]),
           Absent)
    /\ UNCHANGED <<handling, parentStore, childStore, childCache, installed, charts,
                   handles, workqueue, threadiness, runner, pc, run, ext, nextUid,
                   okRuns, settled, taken, delivered>>

\* The notifications of a list, in the order of the list: each an add.
RECURSIVE AddAll(_, _)
AddAll(ns, listed) ==
    IF listed = <<>> THEN ns
    ELSE AddAll(Distribute(ns, "Submarine",
                           MetaNamespaceKeyFunc(Head(listed).ns, Head(listed).name),
                           Absent, Head(listed)),
                Tail(listed))

\* The initial list of the Submarine informer: the lister is filled, a
\* notification of each Submarine listed is handed to the listener, in the
\* order of the list, and c.submarinesSynced reports true.
InitialList ==
    /\ ~Crashed
    /\ ~runner.synced
    /\ parentCache' = parentStore
    /\ LET present == {parentStore[k] :
                          k \in {x \in DOMAIN parentStore : parentStore[x] # Absent}}
       IN  \E listed \in [1..Cardinality(present) -> present] :
              /\ \A i, j \in DOMAIN listed : listed[i] = listed[j] => i = j
              /\ notify' = AddAll(notify, listed)
    /\ runner' = [runner EXCEPT !.synced = TRUE]
    /\ UNCHANGED <<handling, parentStore, childStore, childCache, watch, installed, charts,
                   handles, workqueue, threadiness, pc, run, ext, nextUid, okRuns,
                   settled, taken, delivered>>

\* A periodic resync of the Submarine informer: the listener is handed an
\* update of the object the lister holds, old and new the same.
Resync(k) ==
    /\ ~Crashed
    /\ runner.synced
    /\ parentCache[k] # Absent
    /\ Len(notify["Submarine"]) < MaxPending
    /\ notify' = Distribute(notify, "Submarine", k, parentCache[k], parentCache[k])
    /\ UNCHANGED <<handling, parentStore, parentCache, childStore, childCache, watch,
                   installed, charts, handles, workqueue, threadiness, runner, pc,
                   run, ext, nextUid, okRuns, settled, taken, delivered>>

\* Handlers of the Submarine informer whose UpdateFunc returns when the
\* resource versions are equal, as those of the children do.
SubmarineDeltaCompared(q, old, new) ==
    IF new = Absent THEN enqueueSubmarineDelta(q, old, DELETE)
    ELSE IF old = Absent THEN enqueueSubmarine(q, new, ADD)
    ELSE IF new.rv = old.rv THEN q
    ELSE enqueueSubmarine(q, new, UPDATE)

\* The handlers NewController registers with the Submarine informer:
\* DeleteFunc on the object deleted or its tombstone, AddFunc, or UpdateFunc,
\* which does not compare resource versions.
SubmarineDelta(q, old, new) ==
    IF new = Absent THEN enqueueSubmarineDelta(q, old, DELETE)
    ELSE IF old = Absent THEN enqueueSubmarine(q, new, ADD)
    ELSE enqueueSubmarine(q, new, UPDATE)

\* The listener of the Submarine informer calls the handler for the next
\* notification.
SubmarineEventHandler ==
    /\ ~Crashed
    /\ notify["Submarine"] # <<>>
    /\ workqueue' = SubmarineDelta(workqueue, Head(notify["Submarine"]).old,
                                   Head(notify["Submarine"]).new)
    /\ notify' = [notify EXCEPT !["Submarine"] = Tail(@)]
    /\ UNCHANGED <<handling, parentStore, parentCache, childStore, childCache, watch,
                   installed, charts, handles, threadiness, runner, pc, run, ext,
                   nextUid, okRuns, settled, taken, delivered>>

\* The handler a child informer runs for one notification, up to the
\* return of the lister: DeleteFunc (handleObject on the object deleted or
\* its tombstone), AddFunc, or UpdateFunc, which returns when the resource
\* versions are equal.
ChildDelta(old, new, id) ==
    IF new = Absent
    THEN IF old = Absent THEN Nil ELSE handleObject(old, id)
    ELSE IF old = Absent THEN handleObject(new, id)
    ELSE IF new.rv = old.rv THEN Nil
    ELSE handleObject(new, id)

\* The informer of one kind takes the next event of its watch: the lister
\* is brought up for that object and the notification is handed to the
\* listener.
SyncChild(kind) ==
    /\ ~Crashed
    /\ watch[kind] # <<>>
    /\ LET id == Head(watch[kind]).id
           new == Head(watch[kind]).obj
       IN  /\ childCache' = [childCache EXCEPT ![id] = new]
           /\ notify' = Distribute(notify, kind, id, childCache[id], new)
    /\ watch' = [watch EXCEPT ![kind] = Tail(@)]
    /\ delivered' = IF delivered < MaxDelivered THEN delivered + 1 ELSE delivered
    /\ UNCHANGED <<parentStore, parentCache, childStore, handling, installed, charts,
                   handles, workqueue, threadiness, runner, pc, run, ext, nextUid,
                   okRuns, settled, taken>>

\* The informer of the kind of id has lost its watch and lists again: the
\* events of id it has not seen are gone, and a child the lister holds and
\* the store no longer does leaves the lister; the notification of the
\* delete carries a tombstone around the last object known.
RelistChild(id) ==
    /\ ~Crashed
    /\ childCache[id] # Absent
    /\ childStore[id] = Absent
    /\ childCache' = [childCache EXCEPT ![id] = Absent]
    /\ watch' = [watch EXCEPT ![id.kind] = SelectSeq(@, LAMBDA e : e.id # id)]
    /\ notify' = Distribute(notify, id.kind, id,
           DeletedFinalStateUnknown(MetaNamespaceKeyFunc(id.ns, id.name), childCache[id]),
           Absent)
    /\ delivered' = IF delivered < MaxDelivered THEN delivered + 1 ELSE delivered
    /\ UNCHANGED <<parentStore, parentCache, childStore, handling, installed, charts,
                   handles, workqueue, threadiness, runner, pc, run, ext, nextUid,
                   okRuns, settled, taken>>

\* The listener of the informer of one kind calls the handler for the next
\* notification: handleObject asks the Submarine lister as it is by then,
\* and holds the Submarine it is given.
ChildEventHandler(kind) ==
    /\ ~Crashed
    /\ handling[kind] = Nil
    /\ notify[kind] # <<>>
    /\ handling' = [handling EXCEPT ![kind] =
           ChildDelta(Head(notify[kind]).old, Head(notify[kind]).new,
                      Head(notify[kind]).id)]
    /\ notify' = [notify EXCEPT ![kind] = Tail(@)]
    /\ UNCHANGED <<parentStore, parentCache, childStore, childCache, watch,
                   installed, charts, handles, workqueue, threadiness, runner, pc,
                   run, ext, nextUid, okRuns, settled, taken, delivered>>

\* handleObject goes on to c.enqueueSubmarine(submarine, UPDATE) with the
\* Submarine the lister gave it, whatever the lister holds by now, and
\* returns to the listener.
handleObjectEnqueue(kind) ==
    /\ ~Crashed
    /\ handling[kind] # Nil
    /\ workqueue' = enqueueSubmarine(workqueue, handling[kind], UPDATE)
    /\ handling' = [handling EXCEPT ![kind] = Nil]
    /\ UNCHANGED <<parentStore, parentCache, childStore, childCache, watch, notify,
                   installed, charts, handles, threadiness, runner, pc, run, ext,
                   nextUid, okRuns, settled, taken, delivered>>

\* ------------------------------------------------------------ the workers
\* processNextWorkItem after syncHandler returned err: AddRateLimited, then
\* the deferred Done.
Requeued(q, item) == QDone(QAddRateLimited(q, item), item)
\* A success path that puts the item back.
RequeuedAnyway(q, item) == QDone(QAddRateLimited(q, item), item)
\* A success path that forgets the item and adds it again.
ForgottenAndReadded(q, item) == QDone(QAdd(QForget(q, item), item), item)
\* processNextWorkItem after syncHandler returned nil: Forget, then Done.
Forgotten(q, item) == QDone(QForget(q, item), item)

\* A Delete branch that uninstalls the releases of the parent's namespace.
ChartsOfNamespace(cs, namespace) ==
    SelectSeq(cs, LAMBDA chart : chart.ns = namespace)

\* for _, chart := range c.charts: the handles the Delete branch goes through.
ChartsToUninstall(cs, namespace) == cs

\* A syncHandler that reconciles on Add alone.
AddOnly(action) == action = ADD

\* if action != DELETE: the case of Add and Update.
AddOrUpdate(action) == action # DELETE

\* processNextWorkItem up to the call of syncHandler: Get hands over the
\* head of the queue (the defer of Done is set up, the item is of the right
\* type).
processNextWorkItem(w) ==
    /\ Active(w)
    /\ pc[w] = "idle"
    /\ workqueue.queue # <<>>
    /\ workqueue' = QGet(workqueue)
    /\ pc' = [pc EXCEPT ![w] = "syncHandler"]
    /\ run' = [run EXCEPT ![w] =
                 [NewRun(Head(workqueue.queue)) EXCEPT !.result = "running"]]
    /\ taken' = IF taken < MaxReconciles THEN taken + 1 ELSE taken
    /\ UNCHANGED <<parentStore, parentCache, childStore, childCache, watch, notify, handling,
                   installed, charts, handles, threadiness, runner, ext, nextUid,
                   okRuns, settled, delivered>>

\* syncHandler up to its first blocking call: the split of the key, and for
\* Add and Update the lister Get of the parent (not found: return nil), for
\* Delete the read of c.charts the range statement starts with.
syncHandler(w) ==
    /\ Active(w)
    /\ pc[w] = "syncHandler"
    /\ LET item == run[w].item
           namespace == SplitNamespace(item.key)
           name == SplitName(item.key)
           submarine == parentCache[<<namespace, name>>]
       IN  IF AddOrUpdate(item.action)
           THEN IF submarine = Absent
                THEN /\ pc' = [pc EXCEPT ![w] = "idle"]
                     /\ workqueue' = Forgotten(workqueue, item)
                     /\ run' = [run EXCEPT ![w] = Returned(NewRun(item), "ok")]
                ELSE /\ pc' = [pc EXCEPT ![w] = "charts"]
                     /\ workqueue' = workqueue
                     /\ run' = [run EXCEPT ![w].sub = submarine,
                                           ![w].i = 1,
                                           ![w].clean = CaughtUp,
                                           ![w].second = settled /\ CaughtUp]
           ELSE /\ pc' = [pc EXCEPT ![w] =
                            IF ChartsToUninstall(charts, namespace) = <<>>
                            THEN "clear" ELSE "uninstall"]
                /\ workqueue' = workqueue
                /\ run' = [run EXCEPT
                             ![w].snap = ChartsToUninstall(charts, namespace),
                             ![w].i = 1]
    /\ UNCHANGED <<parentStore, parentCache, childStore, childCache, watch, notify, handling,
                   installed, charts, handles, threadiness, runner, ext, nextUid,
                   okRuns, settled, taken, delivered>>

\* helm.CheckRelease(name, namespace).
CheckRelease(name, namespace) == <<name, namespace>> \in installed

\* helm.HelmInstallLocalChart: the handle of the release installed.
HelmInstallLocalChart(name, namespace) ==
    [id |-> Len(handles) + 1, name |-> name, ns |-> namespace]

\* newSubCharts: helm.CheckRelease of the release at hand. A missing release
\* takes the worker to c.charts = append(c.charts, HelmInstallLocalChart(...)).
newSubChartsProbe(w) ==
    /\ Active(w)
    /\ pc[w] = "charts"
    /\ LET namespace == SplitNamespace(run[w].item.key)
           name == Releases[run[w].i]
       IN  IF ~CheckRelease(name, namespace)
           THEN /\ run' = [run EXCEPT ![w].snap = <<>>, ![w].read = FALSE]
                /\ pc' = [pc EXCEPT ![w] = "install"]
           ELSE IF run[w].i < Len(Releases)
           THEN /\ run' = [run EXCEPT ![w].i = @ + 1]
                /\ pc' = pc
           ELSE /\ run' = [run EXCEPT ![w].i = 1, ![w].phase = "get"]
                /\ pc' = [pc EXCEPT ![w] = "server"]
    /\ UNCHANGED <<parentStore, parentCache, childStore, childCache, watch, notify, handling,
                   installed, charts, handles, workqueue, threadiness, runner, ext,
                   nextUid, okRuns, settled, taken, delivered>>

\* newSubCharts: the read of c.charts, the first operand of append. Go
\* leaves the order of the read and the call of HelmInstallLocalChart open,
\* and nothing guards the field: the read comes before the call or after it.
newSubChartsRead(w) ==
    /\ Active(w)
    /\ pc[w] \in {"install", "append"}
    /\ ~run[w].read
    /\ run' = [run EXCEPT ![w].snap = charts, ![w].read = TRUE]
    /\ UNCHANGED <<parentStore, parentCache, childStore, childCache, watch, notify, handling,
                   installed, charts, handles, workqueue, threadiness, runner, pc,
                   ext, nextUid, okRuns, settled, taken, delivered>>

\* newSubCharts: helm.HelmInstallLocalChart. The release is there for every
\* CheckRelease from now on; the worker holds the handle.
newSubChartsInstall(w) ==
    /\ Active(w)
    /\ pc[w] = "install"
    /\ LET namespace == SplitNamespace(run[w].item.key)
           name == Releases[run[w].i]
       IN  /\ installed' = installed \cup {<<name, namespace>>}
           /\ handles' = Append(handles, 0)
           /\ run' = [run EXCEPT ![w].handle = HelmInstallLocalChart(name, namespace)]
    /\ pc' = [pc EXCEPT ![w] = "append"]
    /\ UNCHANGED <<parentStore, parentCache, childStore, childCache, watch, notify, handling,
                   charts, workqueue, threadiness, runner, ext, nextUid, okRuns,
                   settled, taken, delivered>>

\* newSubCharts: the write of c.charts = append(c.charts, handle), the
\* handle appended to the slice as the worker has read it.
newSubChartsAppend(w) ==
    /\ Active(w)
    /\ pc[w] = "append"
    /\ run[w].read
    /\ charts' = Append(run[w].snap, run[w].handle)
    /\ IF run[w].i < Len(Releases)
       THEN /\ run' = [run EXCEPT ![w].i = @ + 1, ![w].snap = <<>>,
                                  ![w].read = FALSE, ![w].handle = Nil]
            /\ pc' = [pc EXCEPT ![w] = "charts"]
       ELSE /\ run' = [run EXCEPT ![w].i = 1, ![w].phase = "get", ![w].snap = <<>>,
                                  ![w].read = FALSE, ![w].handle = Nil]
            /\ pc' = [pc EXCEPT ![w] = "server"]
    /\ UNCHANGED <<parentStore, parentCache, childStore, childCache, watch, notify, handling,
                   installed, handles, workqueue, threadiness, runner, ext, nextUid,
                   okRuns, settled, taken, delivered>>

\* One call of the syncer a worker is in, about the child it has got to, and
\* what syncHandler and processNextWorkItem do with what the syncer returns:
\* a panic leaves the worker after the deferred Done; an error is returned
\* and the item is requeued; a syncer that returns nil early, or has gone
\* through its children, hands over to the next.
SyncerStep(w, syncer, order, next) ==
    /\ Active(w)
    /\ pc[w] = syncer
    /\ LET r == run[w]
           ns == SplitNamespace(r.item.key)
           id == order[r.i]
           a == Ensure(r.phase, childCache[id], childStore[id], r.sub, id, ns)
           m ==
              [r EXCEPT !.created = IF a.created THEN @ \cup {id} ELSE @,
                        !.updated = IF a.updated THEN @ \cup {id} ELSE @,
                        !.events = @ \o a.events,
                        !.err = a.err,
                        !.serverDeployment =
                            IF id = ServerDeployment(ns) /\ a.phase = "done" THEN a.obj ELSE @,
                        !.databaseDeployment =
                            IF id = DatabaseDeployment(ns) /\ a.phase = "done" THEN a.obj ELSE @]
           wrote == a.st # childStore[id]
       IN  IF r.i > Len(order)
           THEN /\ pc' = [pc EXCEPT ![w] = next]
                /\ run' = [run EXCEPT ![w].i = 1, ![w].phase = "get"]
                /\ UNCHANGED <<childStore, watch, workqueue, settled>>
           ELSE /\ childStore' = [childStore EXCEPT ![id] = a.st]
                /\ watch' = IF wrote THEN Emit(watch, id.kind, id, a.st) ELSE watch
                /\ settled' = IF wrote THEN FALSE ELSE settled
                /\ IF a.err = "panic"
                   THEN /\ pc' = [pc EXCEPT ![w] = "panic"]
                        /\ workqueue' = QDone(workqueue, r.item)
                        /\ run' = Disturbed([run EXCEPT ![w] = Returned(m, "panic")], w)
                   ELSE IF SyncerFailed(a)
                   THEN /\ pc' = [pc EXCEPT ![w] = "idle"]
                        /\ workqueue' = Requeued(workqueue, r.item)
                        /\ run' = IF wrote
                                  THEN Disturbed([run EXCEPT ![w] =
                                                    Returned(m, "error")], w)
                                  ELSE [run EXCEPT ![w] = Returned(m, "error")]
                   ELSE LET over == a.skip \/ (a.phase = "done" /\ r.i = Len(order))
                            cont == [m EXCEPT
                                       !.phase = IF a.phase = "done" \/ a.skip
                                                 THEN "get" ELSE a.phase,
                                       !.i = IF over THEN 1
                                             ELSE IF a.phase = "done" THEN @ + 1
                                             ELSE @,
                                       !.skipped = IF a.skip THEN @ \cup {syncer}
                                                   ELSE @]
                        IN  /\ pc' = [pc EXCEPT ![w] = IF over THEN next ELSE syncer]
                            /\ workqueue' = workqueue
                            /\ run' = IF wrote
                                      THEN Disturbed([run EXCEPT ![w] = cont], w)
                                      ELSE [run EXCEPT ![w] = cont]
    /\ UNCHANGED <<parentStore, parentCache, childCache, notify, handling, installed, charts,
                   handles, threadiness, runner, ext, nextUid, okRuns, taken, delivered>>

newSubmarineServer(w) ==
    SyncerStep(w, "server", ServerOrder(SplitNamespace(run[w].item.key)), "database")

newSubmarineDatabase(w) ==
    SyncerStep(w, "database", DatabaseOrder(SplitNamespace(run[w].item.key)), "ingress")

newIngress(w) ==
    SyncerStep(w, "ingress", IngressOrder(SplitNamespace(run[w].item.key)), "rbac")

newSubmarineServerRBAC(w) ==
    SyncerStep(w, "rbac", RBACOrder(SplitNamespace(run[w].item.key)), "tensorboard")

newSubmarineTensorboard(w) ==
    SyncerStep(w, "tensorboard", TensorboardOrder(SplitNamespace(run[w].item.key)),
               "status")

\* A syncHandler that records Synced on the way out of a failed Update too.
SyncedEventAlways(r, err) ==
    [r EXCEPT !.events = Append(@, [type |-> "Normal", reason |-> SuccessSynced,
                                    name |-> r.sub.name])]

\* c.recorder.Event(submarine, Normal, SuccessSynced, ...): reached when
\* updateSubmarineStatus returned nil.
SyncedEvent(r, err) ==
    IF err # "" THEN r
    ELSE [r EXCEPT !.events = Append(@, [type |-> "Normal",
                                         reason |-> SuccessSynced,
                                         name |-> r.sub.name])]

\* updateSubmarineStatus up to the return of Submarines(ns).Update. Reading
\* the status of a nil Deployment panics: the deferred Done runs and the
\* panic leaves the worker. An Update the store refuses writes nothing: the
\* error is returned and the item requeued. Otherwise the parent is written.
updateSubmarineStatus(w) ==
    /\ Active(w)
    /\ pc[w] = "status"
    /\ LET r == run[w]
           key == <<r.sub.ns, r.sub.name>>
       IN  IF r.serverDeployment = Nil \/ r.databaseDeployment = Nil
           THEN /\ pc' = [pc EXCEPT ![w] = "panic"]
                /\ workqueue' = QDone(workqueue, r.item)
                /\ run' = [run EXCEPT ![w] = Returned(r, "panic")]
                /\ UNCHANGED <<parentStore, watch>>
           ELSE LET copy == StatusCopy(r.sub, r.serverDeployment, r.databaseDeployment)
                    err == ParentUpdateError(parentStore[key], copy)
                    new == ParentUpdated(parentStore[key], copy, parentCache[key])
                IN  IF err # ""
                    THEN /\ pc' = [pc EXCEPT ![w] = "idle"]
                         /\ workqueue' = Requeued(workqueue, r.item)
                         /\ run' = [run EXCEPT ![w] =
                                      Returned([SyncedEvent(r, err) EXCEPT !.err = err],
                                               "error")]
                         /\ UNCHANGED <<parentStore, watch>>
                    ELSE /\ parentStore' = [parentStore EXCEPT ![key] = new]
                         /\ watch' = IF new # parentStore[key]
                                     THEN Emit(watch, "Submarine", key, new)
                                     ELSE watch
                         /\ pc' = [pc EXCEPT ![w] = "return"]
                         /\ UNCHANGED <<workqueue, run>>
    /\ UNCHANGED <<parentCache, childStore, childCache, notify, handling, installed, charts,
                   handles, threadiness, runner, ext, nextUid, okRuns, settled,
                   taken, delivered>>

\* helm.HelmUninstall(chart): the release of that name is removed.
HelmUninstall(chart) == installed \ {<<chart.name, chart.ns>>}

\* The Delete branch of syncHandler, one chart of the range at a time.
syncHandlerDelete(w) ==
    /\ Active(w)
    /\ pc[w] = "uninstall"
    /\ LET chart == run[w].snap[run[w].i]
       IN  /\ installed' = HelmUninstall(chart)
           /\ handles' = [handles EXCEPT ![chart.id] = @ + 1]
    /\ IF run[w].i < Len(run[w].snap)
       THEN /\ run' = [run EXCEPT ![w].i = @ + 1]
            /\ pc' = pc
       ELSE /\ run' = run
            /\ pc' = [pc EXCEPT ![w] = "clear"]
    /\ UNCHANGED <<parentStore, parentCache, childStore, childCache, watch, notify, handling,
                   charts, workqueue, threadiness, runner, ext, nextUid, okRuns,
                   settled, taken, delivered>>

\* The Delete branch of syncHandler after the range: c.charts = nil.
syncHandlerClear(w) ==
    /\ Active(w)
    /\ pc[w] = "clear"
    /\ charts' = <<>>
    /\ pc' = [pc EXCEPT ![w] = "return"]
    /\ UNCHANGED <<parentStore, parentCache, childStore, childCache, watch, notify, handling,
                   installed, handles, workqueue, threadiness, runner, run, ext,
                   nextUid, okRuns, settled, taken, delivered>>

\* syncHandler returns nil after its last call (for Add and Update the
\* Synced event is recorded first) and processNextWorkItem forgets the item;
\* the deferred Done runs.
syncHandlerReturn(w) ==
    /\ Active(w)
    /\ pc[w] = "return"
    /\ pc' = [pc EXCEPT ![w] = "idle"]
    /\ workqueue' = Forgotten(workqueue, run[w].item)
    /\ IF AddOrUpdate(run[w].item.action)
       THEN /\ run' = [run EXCEPT ![w] = Returned(SyncedEvent(run[w], ""), "ok")]
            /\ okRuns' = IF okRuns < 3 THEN okRuns + 1 ELSE okRuns
            /\ settled' = (settled \/ run[w].clean)
       ELSE /\ run' = [run EXCEPT ![w] = Returned(run[w], "ok")]
            /\ UNCHANGED <<okRuns, settled>>
    /\ UNCHANGED <<parentStore, parentCache, childStore, childCache, watch, notify, handling,
                   installed, charts, handles, threadiness, runner, ext, nextUid,
                   taken, delivered>>

\* The backoff of an item AddRateLimited has put aside has elapsed: the
\* waiting loop of the delaying queue adds it.
BackoffElapsed ==
    /\ ~Crashed
    /\ \E item \in workqueue.waiting :
          workqueue' = QAdd([workqueue EXCEPT !.waiting = @ \ {item}], item)
    /\ UNCHANGED <<parentStore, parentCache, childStore, childCache, watch, notify, handling,
                   installed, charts, handles, threadiness, runner, pc, run, ext,
                   nextUid, okRuns, settled, taken, delivered>>

\* runWorker: Get reports the shutdown once the queue is shut down and empty,
\* processNextWorkItem returns false and the loop ends.
runWorker(w) ==
    /\ Active(w)
    /\ pc[w] = "idle"
    /\ workqueue.queue = <<>>
    /\ workqueue.shuttingDown
    /\ pc' = [pc EXCEPT ![w] = "exited"]
    /\ UNCHANGED <<parentStore, parentCache, childStore, childCache, watch, notify, handling,
                   installed, charts, handles, workqueue, threadiness, runner, run,
                   ext, nextUid, okRuns, settled, taken, delivered>>

\* Run from the stop signal on: <-stopCh is received, Run returns nil and its
\* deferred c.workqueue.ShutDown() runs. The queue is shutting down from the
\* moment Run has returned, and the waiting loop of the delaying queue ends
\* with what it holds.
ShutDown ==
    /\ ~Crashed
    /\ runner.pc = "stopCh"
    /\ ~workqueue.shuttingDown
    /\ workqueue' = [workqueue EXCEPT !.shuttingDown = TRUE, !.waiting = {}]
    /\ runner' = [runner EXCEPT !.pc = "returned"]
    /\ UNCHANGED <<parentStore, parentCache, childStore, childCache, watch, notify, handling,
                   installed, charts, handles, threadiness, pc, run, ext, nextUid,
                   okRuns, settled, taken, delivered>>

\* A Run that launches its workers without waiting for the informer.
WaitForCacheSyncNow ==
    /\ runner.pc = "WaitForCacheSync"
    /\ runner' = [runner EXCEPT !.pc = "stopCh", !.launched = threadiness]
    /\ UNCHANGED <<parentStore, parentCache, childStore, childCache, watch, notify, handling,
                   installed, charts, handles, workqueue, threadiness, pc, run,
                   ext, nextUid, okRuns, settled, taken, delivered>>

\* Run up to <-stopCh: cache.WaitForCacheSync returns true once
\* c.submarinesSynced does, and threadiness workers are launched.
WaitForCacheSync ==
    /\ runner.pc = "WaitForCacheSync"
    /\ runner.synced
    /\ runner' = [runner EXCEPT !.pc = "stopCh", !.launched = threadiness]
    /\ UNCHANGED <<parentStore, parentCache, childStore, childCache, watch, notify, handling,
                   installed, charts, handles, workqueue, threadiness, pc, run,
                   ext, nextUid, okRuns, settled, taken, delivered>>

\* Run when stopCh is closed during cache.WaitForCacheSync: it returns the
\* error "failed to wait for caches to sync" and its deferred
\* c.workqueue.ShutDown() runs.
WaitForCacheSyncAborted ==
    /\ runner.pc = "WaitForCacheSync"
    /\ runner' = [runner EXCEPT !.pc = "returned", !.err = TRUE]
    /\ workqueue' = [workqueue EXCEPT !.shuttingDown = TRUE, !.waiting = {}]
    /\ UNCHANGED <<parentStore, parentCache, childStore, childCache, watch, notify, handling,
                   installed, charts, handles, threadiness, pc, run, ext, nextUid,
                   okRuns, settled, taken, delivered>>

\* ------------------------------------------------------ the specifications
\* A worker takes one of the first n items of the behaviour.
Take(w, n) == taken < n /\ processNextWorkItem(w)

\* The reconcile of an Add or an Update from syncHandler on, with the
\* releases already installed.
Reconcile(w) ==
    \/ syncHandler(w)
    \/ newSubChartsProbe(w)
    \/ newSubmarineServer(w)
    \/ newSubmarineDatabase(w)
    \/ newIngress(w)
    \/ newSubmarineServerRBAC(w)
    \/ newSubmarineTensorboard(w)
    \/ updateSubmarineStatus(w)
    \/ syncHandlerReturn(w)

\* The installation of a release newSubCharts has found missing.
Install(w) ==
    newSubChartsRead(w) \/ newSubChartsInstall(w) \/ newSubChartsAppend(w)

\* processNextWorkItem for an Add or an Update.
Sync(w) == Take(w, MaxTaken) \/ Reconcile(w) \/ Install(w)

\* The informers of the nine kinds of children and their listeners, each on
\* its own.
ChildInformers ==
    \E kind \in ChildKinds :
        SyncChild(kind) \/ ChildEventHandler(kind) \/ handleObjectEnqueue(kind)

\* The same while the informers take the first n events of the behaviour.
Deliver(n) ==
    \E kind \in ChildKinds :
        \/ delivered < n /\ SyncChild(kind)
        \/ ChildEventHandler(kind)
        \/ handleObjectEnqueue(kind)

\* The Submarine informer and its listener.
ParentInformer == SyncParent \/ SubmarineEventHandler

\* The Submarine ns1/a with one replica each and storage type host.
TheParent(k, uid) ==
    [ns |-> k[1], name |-> k[2], uid |-> uid,
     spec |-> [serverReplicas |-> 1, databaseReplicas |-> 1, storageType |-> "host"],
     status |-> [server |-> 0, database |-> 0], rv |-> 1]

\* One worker, a parent of any spec, and no other writer: the first
\* MaxTaken items.
Next ==
    \/ \E w \in Workers : Sync(w)
    \/ ParentInformer \/ Deliver(MaxDelivered)
    \/ BackoffElapsed
    \/ \E k \in ParentKeys, spec \in ParentSpecs : CreateParent(k, spec)
Spec == Init /\ [][Next]_vars

\* The cluster once the Submarine sub, one of those under keys, has been
\* created, delivered and reconciled by one of n workers: the four releases
\* are installed and the fifteen children created. The informers of the
\* kinds in behind have not delivered yet; the others have.
Reconciled(keys, sub, behind, arriving, n) ==
    /\ childStore = [id \in UNION {ChildrenOf(k[1]) : k \in keys} |->
           IF id \in ChildrenOf(sub.ns)
           THEN Created(id, Desired(id, sub, sub.ns), sub, Absent)
           ELSE Absent]
    /\ childCache = [id \in DOMAIN childStore |->
           IF id.kind \in behind THEN Absent ELSE childStore[id]]
    /\ watch = [kind \in ChildKinds \cup {"Submarine"} |->
           IF kind = "Submarine" THEN arriving
           ELSE IF kind \notin behind THEN <<>>
           ELSE LET order == ServerOrder(sub.ns) \o DatabaseOrder(sub.ns)
                                \o IngressOrder(sub.ns) \o RBACOrder(sub.ns)
                                \o TensorboardOrder(sub.ns)
                    ids == SelectSeq(order, LAMBDA id : id.kind = kind)
                IN  [i \in DOMAIN ids |-> [id |-> ids[i], obj |-> childStore[ids[i]]]]]
    /\ notify = NoEvents
    /\ handling = [kind \in ChildKinds |-> Nil]
    /\ installed = {<<Releases[i], sub.ns>> : i \in DOMAIN Releases}
    /\ charts = [i \in DOMAIN Releases |-> [id |-> i, name |-> Releases[i], ns |-> sub.ns]]
    /\ handles = [i \in DOMAIN Releases |-> 0]
    /\ threadiness = n
    /\ runner = Serving(n)
    /\ pc = [w \in Workers |-> "idle"]
    /\ run = [w \in Workers |-> NewRun(Nil)]
    /\ ext = 0
    /\ taken = 0
    /\ delivered = 0
    /\ settled = FALSE

\* The cluster once ns1/a has been reconciled and the listers have caught up:
\* the queue is empty.
Settled(n) ==
    /\ parentStore = [k \in ParentKeys |-> TheParent(k, 1)]
    /\ parentCache = parentStore
    /\ Reconciled(ParentKeys, TheParent(<<"ns1", "a">>, 1), {}, <<>>, n)
    /\ workqueue = EmptyQueue
    /\ nextUid = MaxUid + 1
    /\ okRuns = 0

\* One worker on the settled cluster, and other actors that delete, create,
\* scale and report on the Deployments.
NextDrift ==
    \/ \E w \in Workers : Take(w, MaxTaken) \/ Reconcile(w)
    \/ ParentInformer \/ Deliver(MaxDelivered)
    \/ BackoffElapsed
    \/ \E id \in SquatTargets : ExtCreate(id)
    \/ \E id \in SquatTargets : ExtDelete(id)
    \/ \E id \in DeploymentTargets, n \in ReplicaValues : ExtScale(id, n)
    \/ \E id \in DeploymentTargets, n \in {0, 1} : ExtAvail(id, n)
SpecDrift == Settled(1) /\ [][NextDrift]_vars

\* One worker, a parent that stays, and another actor that creates a
\* Deployment under the name of the server's.
NextSquat ==
    \/ \E w \in Workers : Sync(w)
    \/ ParentInformer \/ Deliver(MaxDelivered)
    \/ BackoffElapsed
    \/ \E k \in ParentKeys : CreateParent(k, TheParent(k, 1).spec)
    \/ \E id \in SquatTargets : ExtCreate(id)
SpecSquat == Init /\ [][NextSquat]_vars

\* One worker that takes the first item, and a parent that is created,
\* resynced and deleted; the deletion reaches DeleteFunc as the object the
\* watch saw or, after a relist, as a tombstone.
NextParent ==
    \/ \E w \in Workers : Take(w, 1) \/ Reconcile(w) \/ Install(w)
    \/ ParentInformer \/ Deliver(MaxDelivered)
    \/ BackoffElapsed
    \/ \E k \in ParentKeys : CreateParent(k, TheParent(k, 1).spec)
    \/ \E k \in ParentKeys : DeleteParent(k)
    \/ \E k \in ParentKeys : Resync(k)
    \/ \E k \in ParentKeys : RelistParent(k)
SpecParent == Init /\ [][NextParent]_vars

\* One worker on the settled cluster, a parent that is deleted, and other
\* actors whose objects have no controller or a controller of another kind.
NextOrphans ==
    \/ \E w \in Workers : Take(w, MaxTaken) \/ Reconcile(w) \/ syncHandlerDelete(w) \/ syncHandlerClear(w)
    \/ ParentInformer \/ Deliver(MaxDelivered)
    \/ BackoffElapsed
    \/ \E k \in ParentKeys : DeleteParent(k)
    \/ \E id \in SquatTargets : ExtCreate(id)
    \/ \E id \in SquatTargets, owner \in ForeignOwners : ExtCreateControlled(id, owner)
    \/ \E id \in SquatTargets : ExtDelete(id)
    \/ \E id \in SquatTargets : delivered < MaxDelivered /\ RelistChild(id)
    \/ \E id \in DeploymentTargets, n \in ReplicaValues : ExtScale(id, n)
SpecOrphans == Settled(1) /\ [][NextOrphans]_vars

\* NumWorkers workers on the settled cluster, resyncs, and a parent that is
\* deleted: the first MaxReconciles items.

NextWorkers ==
    \/ \E w \in Workers :
          Take(w, MaxReconciles) \/ Reconcile(w) \/ Install(w) \/ syncHandlerDelete(w) \/ syncHandlerClear(w)
    \/ ParentInformer
    \/ BackoffElapsed
    \/ \E k \in ParentKeys : Resync(k)
    \/ \E k \in ParentKeys : DeleteParent(k)
SpecWorkers == Settled(NumWorkers) /\ [][NextWorkers]_vars

\* One worker, a parent that stays, and the stop signal.
NextStop ==
    \/ \E w \in Workers : Sync(w) \/ runWorker(w)
    \/ ParentInformer \/ Deliver(MaxDelivered)
    \/ BackoffElapsed
    \/ \E k \in ParentKeys : CreateParent(k, TheParent(k, 1).spec)
    \/ ShutDown
SpecStop == Init /\ [][NextStop]_vars

\* One worker on the settled cluster, children that other actors delete, and
\* resyncs: the first MaxReconciles items.
NextConverge ==
    \/ \E w \in Workers : Take(w, MaxReconciles) \/ Reconcile(w)
    \/ Deliver(MaxDelivered)
    \/ SubmarineEventHandler
    \/ BackoffElapsed
    \/ \E id \in ConvergeTargets : ExtDelete(id)
    \/ \E k \in ParentKeys : Resync(k)
SpecConverge == Settled(1) /\ [][NextConverge]_vars

\* One worker on the settled cluster, a parent whose storage type is edited,
\* and storage claims that other actors delete.
NextStorage ==
    \/ \E w \in Workers : Take(w, MaxTaken) \/ Reconcile(w)
    \/ ParentInformer \/ ChildInformers
    \/ BackoffElapsed
    \/ \E k \in ParentKeys, t \in StorageTypes : UpdateParentStorage(k, t)
    \/ \E id \in ClaimTargets : ExtDelete(id)
SpecStorage == Settled(1) /\ [][NextStorage]_vars

\* Run from its first statement: the initial list, the wait for it, the
\* launch of NumWorkers workers, and the stop signal at any time.
NextRun ==
    \/ InitialList
    \/ WaitForCacheSync
    \/ WaitForCacheSyncAborted
    \/ ShutDown
    \/ \E w \in Workers : Take(w, 1) \/ Reconcile(w) \/ Install(w) \/ runWorker(w)
    \/ ParentInformer \/ Deliver(MaxDelivered)
    \/ \E k \in ParentKeys : CreateParent(k, TheParent(k, 1).spec)
SpecRun == InitRun /\ [][NextRun]_vars

\* One worker on the settled cluster, resyncs, and a parent that is deleted;
\* the deletion reaches DeleteFunc as the object the watch saw or, after a
\* relist, as a tombstone.
NextRelist ==
    \/ \E w \in Workers : Take(w, MaxTaken) \/ Reconcile(w) \/ syncHandlerDelete(w) \/ syncHandlerClear(w)
    \/ ParentInformer
    \/ BackoffElapsed
    \/ \E k \in ParentKeys : RelistParent(k)
    \/ \E k \in ParentKeys : Resync(k)
    \/ \E k \in ParentKeys : DeleteParent(k)
SpecRelist == Settled(1) /\ [][NextRelist]_vars

\* Run(NumWorkers, stopCh) of a controller started on a cluster that holds
\* ns1/a, its children and the releases found: AddFunc has queued the Add of
\* ns1/a after the initial list, UpdateFunc its Update after a resync, and
\* c.charts is empty.
InitCharts ==
    /\ parentStore = [k \in ParentKeys |-> TheParent(k, 1)]
    /\ parentCache = parentStore
    /\ childStore = [id \in ChildIds |->
           Created(id, Desired(id, TheParent(<<"ns1", "a">>, 1), "ns1"),
                   TheParent(<<"ns1", "a">>, 1), Absent)]
    /\ childCache = childStore
    /\ watch = NoEvents
    /\ notify = NoEvents
    /\ handling = [kind \in ChildKinds |-> Nil]
    /\ installed = {<<Releases[1], "ns1">>, <<Releases[2], "ns1">>}
    /\ charts = <<>>
    /\ handles = <<>>
    /\ workqueue = enqueueSubmarine(
                       enqueueSubmarine(EmptyQueue, TheParent(<<"ns1", "a">>, 1), ADD),
                       TheParent(<<"ns1", "a">>, 1), UPDATE)
    /\ threadiness = NumWorkers
    /\ runner = Serving(NumWorkers)
    /\ pc = [w \in Workers |-> "idle"]
    /\ run = [w \in Workers |-> NewRun(Nil)]
    /\ ext = 0
    /\ nextUid = MaxUid + 1
    /\ taken = 0
    /\ delivered = 0
    /\ okRuns = 0
    /\ settled = FALSE

\* NumWorkers workers on the Add and on the Update.
NextCharts ==
    \E w \in Workers : Take(w, MaxTaken) \/ Reconcile(w) \/ Install(w)
SpecCharts == InitCharts /\ [][NextCharts]_vars

\* One worker and two Submarines of one namespace: ns1/a has been reconciled
\* for the first time, the ServiceAccount informer has not delivered yet, the
\* deliveries of the others have queued the Update of ns1/a, and ns1/b is in
\* the store and about to be delivered.
InitSiblings ==
    /\ parentStore = [k \in SiblingKeys |-> TheParent(k, IF k[2] = "a" THEN 1 ELSE 2)]
    /\ parentCache = [k \in SiblingKeys |->
                         IF k[2] = "a" THEN parentStore[k] ELSE Absent]
    /\ Reconciled(SiblingKeys, TheParent(<<"ns1", "a">>, 1), {"ServiceAccount"},
                  <<[id |-> <<"ns1", "b">>, obj |-> TheParent(<<"ns1", "b">>, 2)]>>, 1)
    /\ workqueue = enqueueSubmarine(EmptyQueue,
                                    TheParent(<<"ns1", "a">>, 1), UPDATE)
    /\ nextUid = MaxUid + 2
    /\ okRuns = 0

\* The two parents of one namespace, delivered and reconciled.
NextSiblings ==
    \/ \E w \in Workers : Take(w, MaxTaken) \/ Reconcile(w)
    \/ ParentInformer \/ ChildInformers
    \/ BackoffElapsed
SpecSiblings == InitSiblings /\ [][NextSiblings]_vars

\* One worker and two Submarines of two namespaces: ns2/b has been
\* reconciled and the listers have caught up, and ns1/a is in the store and
\* about to be delivered.
InitTenants ==
    /\ parentStore = [k \in TenantKeys |-> TheParent(k, IF k[2] = "b" THEN 1 ELSE 2)]
    /\ parentCache = [k \in TenantKeys |->
                         IF k[2] = "b" THEN parentStore[k] ELSE Absent]
    /\ Reconciled(TenantKeys, TheParent(<<"ns2", "b">>, 1), {},
                  <<[id |-> <<"ns1", "a">>, obj |-> TheParent(<<"ns1", "a">>, 2)]>>, 1)
    /\ workqueue = EmptyQueue
    /\ nextUid = MaxUid + 2
    /\ okRuns = 0

\* The two parents of two namespaces, either of which may be deleted. The
\* reconcile of ns1/a stops at the ClusterRole of ns2/b, and nothing queues
\* ns2/b but its deletion.
NextTenants ==
    \/ \E w \in Workers :
          \/ Take(w, MaxTaken)
          \/ syncHandler(w)
          \/ newSubChartsProbe(w)
          \/ Install(w)
          \/ newSubmarineServer(w)
          \/ newSubmarineDatabase(w)
          \/ newIngress(w)
          \/ newSubmarineServerRBAC(w)
          \/ syncHandlerDelete(w) \/ syncHandlerClear(w)
          \/ syncHandlerReturn(w)
    \/ ParentInformer \/ Deliver(MaxDelivered)
    \/ BackoffElapsed
    \/ \E k \in TenantKeys : DeleteParent(k)
SpecTenants == InitTenants /\ [][NextTenants]_vars

\* A launched worker can take a step: it is inside processNextWorkItem, or it
\* is at Get and the queue holds an item.
SyncEnabled ==
    \E w \in Workers :
        /\ Active(w)
        /\ \/ pc[w] \in {"syncHandler", "charts", "server", "database", "ingress",
                          "rbac", "tensorboard", "status", "return"}
           \/ pc[w] = "idle" /\ workqueue.queue # <<>>

\* One worker right after the first reconcile of ns1/a has ended in success:
\* the informers of Deployments and PersistentVolumes have not delivered the
\* Creates yet, the others have and have queued the Update of ns1/a.
InitQuiet ==
    /\ parentStore = [k \in ParentKeys |-> TheParent(k, 1)]
    /\ parentCache = parentStore
    /\ Reconciled(ParentKeys, TheParent(<<"ns1", "a">>, 1),
                  {"Deployment", "PersistentVolume"}, <<>>, 1)
    /\ workqueue = enqueueSubmarine(EmptyQueue, TheParent(<<"ns1", "a">>, 1), UPDATE)
    /\ nextUid = MaxUid + 1
    /\ okRuns = 1

\* The parent stays, no one else writes to the store and there is no resync.
\* The informers keep delivering what the watch holds, the waiting loop of
\* the queue keeps adding what has waited long enough, and the worker loop
\* keeps running: weak fairness of each of the three, that of the worker
\* loop written out with the guard of its actions for ENABLED.
NextQuiet ==
    \/ \E w \in Workers : processNextWorkItem(w) \/ Reconcile(w)
    \/ ChildInformers
    \/ BackoffElapsed
Fairness ==
    /\ WF_vars(ChildInformers)
    /\ WF_vars(BackoffElapsed)
    /\ \/ []<>(~SyncEnabled)
       \/ []<><<\E w \in Workers : processNextWorkItem(w) \/ Reconcile(w)>>_vars
SpecQuiet ==
    /\ InitQuiet
    /\ [][NextQuiet]_vars
    /\ Fairness

\* The informer factory is given a resync period: the Submarine informer
\* resyncs the Submarine its lister holds period after period.
ResyncPeriod == WF_vars(\E k \in ParentKeys : Resync(k))

\* One worker, a parent that stays, and other actors that delete owned
\* children of the settled cluster, MaxDeletions of them. Informers, waiting
\* loop and worker loop are fair as in SpecQuiet, the listener of the
\* Submarine informer keeps calling the handler, and the informer resyncs.
NextRecreate ==
    \/ \E w \in Workers : processNextWorkItem(w) \/ Reconcile(w)
    \/ ChildInformers
    \/ SubmarineEventHandler
    \/ BackoffElapsed
    \/ \E k \in ParentKeys : Resync(k)
    \/ \E id \in RecreateTargets : ext < MaxDeletions /\ ExtDelete(id)
    \/ \E id \in RecreateTargets : RelistChild(id)
SpecRecreate ==
    /\ Settled(1)
    /\ [][NextRecreate]_vars
    /\ Fairness
    /\ WF_vars(SubmarineEventHandler)
    /\ ResyncPeriod
\* -------------------------------------------------------------- the claims
Syncers == {"server", "database", "ingress", "rbac", "tensorboard"}

\* Worker w takes a step of the reconcile it is in.
Steps(w) ==
    /\ pc[w] \notin {"idle", "panic", "exited"}
    /\ \/ pc'[w] # pc[w]
       \/ run'[w].i # run[w].i
       \/ run'[w].phase # run[w].phase
       \/ run'[w].read # run[w].read

\* The reconcile of an Add or an Update that worker w is in ends in success.
Succeeds(w) ==
    /\ pc[w] = "return"
    /\ run[w].item.action # DELETE
    /\ run'[w].result = "ok"

\* The listener of the informer of the kind calls the handler for the
\* notification at the head of its queue.
Handles(kind) ==
    /\ notify[kind] # <<>>
    /\ notify'[kind] = Tail(notify[kind])

\* Every listener has called its handler for every notification, and every
\* handler has returned.
Handled ==
    /\ notify = NoEvents
    /\ \A kind \in ChildKinds : handling[kind] = Nil

\* Worker w makes a call of a syncer.
SyncerCall(w) == pc[w] \in Syncers /\ Steps(w)

\* The child the syncer of worker w has got to.
ChildAtHand(w) ==
    LET ns == SplitNamespace(run[w].item.key)
        order == IF pc[w] = "server" THEN ServerOrder(ns)
                 ELSE IF pc[w] = "database" THEN DatabaseOrder(ns)
                 ELSE IF pc[w] = "ingress" THEN IngressOrder(ns)
                 ELSE IF pc[w] = "rbac" THEN RBACOrder(ns)
                 ELSE TensorboardOrder(ns)
    IN  order[run[w].i]

\* C1: for every parent key, at most one worker is executing syncHandler for
\* that key at any time, whatever deltas were enqueued for it.
KeyLevelSerialization ==
    \A w1 \in Workers : \A w2 \in Workers :
        (w1 # w2 /\ pc[w1] \notin {"idle", "panic", "exited"}
                 /\ pc[w2] \notin {"idle", "panic", "exited"})
            => run[w1].item.key # run[w2].item.key

\* C2: an object in the store that bears a managed child's name and is not
\* controlled by the parent being reconciled is left as it is by every call
\* of a syncer.
NameCollisionSafety ==
    [][\A w \in Workers : \A id \in ChildIds :
          (/\ SyncerCall(w)
           /\ childStore[id] # Absent
           /\ ~IsControlledBy(childStore[id], run[w].sub))
              => childStore'[id] = childStore[id]]_vars

\* C3: every child in the store that a reconcile wrote carries a controller
\* reference of kind Submarine, controller = true, with the UID of the parent
\* that reconcile was for.
Ownership ==
    \A id \in ChildIds :
        (childStore[id] # Absent /\ childStore[id].by # 0)
            => /\ childStore[id].owner.kind = "Submarine"
               /\ childStore[id].owner.controller
               /\ childStore[id].owner.uid = childStore[id].by

OwnershipWitness ==
    /\ taken > 0
    /\ \A id \in ChildIds : childStore[id] # Absent /\ childStore[id].by # 0

\* The Deployments in the store have the replica counts r.sub specifies,
\* where it specifies one.
ReplicasRestored(store, sub) ==
    /\ (/\ sub.spec.serverReplicas # NoReplicas
        /\ store[ServerDeployment(sub.ns)] # Absent)
           => store[ServerDeployment(sub.ns)].replicas = sub.spec.serverReplicas
    /\ (/\ sub.spec.databaseReplicas # NoReplicas
        /\ store[DatabaseDeployment(sub.ns)] # Absent)
           => store[DatabaseDeployment(sub.ns)].replicas = sub.spec.databaseReplicas

\* C4, as the spec words it: when a reconcile ends in success, spec.replicas
\* of the server Deployment in the store and of the database Deployment in
\* the store are the counts the parent specifies, where it specifies one.
DriftCorrection ==
    [][\A w \in Workers :
          Succeeds(w) => ReplicasRestored(childStore', run[w].sub)]_vars

\* C4, amended: the same, for a reconcile that started with the listers equal
\* to the store and during which no one else wrote to the store.
DriftCorrectionCaughtUp ==
    [][\A w \in Workers :
          (Succeeds(w) /\ run[w].clean)
              => ReplicasRestored(childStore', run[w].sub)]_vars

DriftCorrectionWitness ==
    \E w \in Workers : \E ns \in Namespaces :
        /\ run[w].result = "ok"
        /\ run[w].clean
        /\ ServerDeployment(ns) \in run[w].updated
        /\ childStore[ServerDeployment(ns)].replicas = 1
        /\ childStore[ServerDeployment(ns)].by # 0

\* C5: when the status Update of a reconcile succeeds, and when the reconcile
\* ends in success after it, the status of the parent in the store carries
\* the availableReplicas of the server Deployment and of the database
\* Deployment that the reconcile held.
StatusFaithfulness ==
    [][\A w \in Workers :
          ((pc[w] = "status" /\ pc'[w] = "return") \/ Succeeds(w))
              => parentStore'[<<run[w].sub.ns, run[w].sub.name>>].status
                    = [server |-> run[w].serverDeployment.avail,
                       database |-> run[w].databaseDeployment.avail]]_vars

StatusFaithfulnessWitness ==
    \E w \in Workers : \E k \in ParentKeys :
        /\ run[w].result = "ok"
        /\ parentStore[k] # Absent
        /\ parentStore[k].status = [server |-> 1, database |-> 0]

\* C6: when the Delete branch of syncHandler empties c.charts, every handle in
\* c.charts, and every handle the range went over, has been passed to
\* HelmUninstall exactly once, and c.charts is empty afterwards.
DeleteCascade ==
    [][\A w \in Workers :
          (/\ pc[w] = "clear"
           /\ pc'[w] = "return")
              => /\ charts' = <<>>
                 /\ \A i \in DOMAIN charts : handles[charts[i].id] = 1
                 /\ \A i \in DOMAIN run[w].snap : handles[run[w].snap[i].id] = 1]_vars

\* C7: once the parent is gone from the store and the lister, the queue is
\* empty and no worker is busy, every release that was installed has been
\* uninstalled exactly once and none is installed.
ReleasesUninstalledOnce ==
    (/\ \A k \in ParentKeys : parentStore[k] = Absent /\ parentCache[k] = Absent
     /\ watch = NoEvents
     /\ Handled
     /\ workqueue = EmptyQueue
     /\ \A w \in Workers : pc[w] = "idle")
        => /\ installed = {}
           /\ \A i \in 1..Len(handles) : handles[i] = 1

\* C8: a reconcile that starts after a successful one, with nothing written
\* to the store by anyone else since and the listers caught up, issues no
\* Create and no Update and leaves every child as it is.
Idempotence ==
    [][\A w \in Workers :
          (run[w].second /\ Steps(w))
              => /\ childStore' = childStore
                 /\ run'[w].created = {}
                 /\ run'[w].updated = {}]_vars

IdempotenceWitness ==
    \E w \in Workers :
        /\ run[w].second
        /\ run[w].result = "ok"
        /\ \A id \in ChildIds : childStore[id] # Absent

\* C9, as the spec words it: with a valid parent and no object under a managed
\* name that the parent does not control, once three reconciles have ended in
\* success since the store was last written to by anyone else, every child is
\* there, is controlled by the parent and has the replica count it specifies.
Convergence ==
    \A k \in ParentKeys :
        (/\ okRuns >= 3
         /\ parentStore[k] # Absent
         /\ parentStore[k].spec.storageType \in ValidStorageTypes
         /\ \A id \in ChildrenOf(k[1]) :
               childStore[id] # Absent => IsControlledBy(childStore[id], parentStore[k]))
            => /\ \A id \in ChildrenOf(k[1]) : childStore[id] # Absent
               /\ ReplicasRestored(childStore, parentStore[k])

\* C9, amended: when a reconcile of a valid parent that started with the
\* listers equal to the store, and during which no one else wrote to the
\* store, ends in success, every child is there, is controlled by the parent
\* and has the replica count it specifies.
ConvergenceCaughtUp ==
    [][\A w \in Workers :
          (Succeeds(w) /\ run[w].clean)
              => /\ \A id \in ChildrenOf(run[w].sub.ns) :
                       /\ childStore'[id] # Absent
                       /\ IsControlledBy(childStore'[id], run[w].sub)
                 /\ ReplicasRestored(childStore', run[w].sub)]_vars

ConvergenceWitness ==
    \E w \in Workers : \E ns \in Namespaces :
        /\ run[w].result = "ok"
        /\ run[w].clean
        /\ run[w].created = {ServerIngress(ns)}
        /\ \A id \in ChildrenOf(ns) : childStore[id] # Absent

\* C10: a reconcile that found no database PersistentVolume in the lister and
\* a storage type that is neither nfs nor host creates no PersistentVolume and
\* no claim, creates the Server, Ingress and RBAC children, and ends in
\* success.
InvalidStorageSucceeds ==
    \A w \in Workers :
        ("database" \in run[w].skipped /\ run[w].result \notin {"none", "running"})
            => /\ run[w].result = "ok"
               /\ \A id \in run[w].created :
                     id.kind \notin {"PersistentVolume", "PersistentVolumeClaim"}

\* C11: for every watched kind, the Submarine kind included, the handler of
\* an Update delta whose old and new objects carry the same resource version
\* leaves the work queue as it is. For the Submarine kind such a delta is
\* that of a resync, which hands the lister's object to UpdateFunc as old
\* and as new.
SpuriousUpdateSuppressed ==
    [][/\ \A kind \in ChildKinds \cup {"Submarine"} :
             (/\ Handles(kind)
              /\ Head(notify[kind]).old # Absent
              /\ Head(notify[kind]).new # Absent
              /\ ~IsTombstone(Head(notify[kind]).old)
              /\ Head(notify[kind]).old.rv = Head(notify[kind]).new.rv)
                 => /\ workqueue' = workqueue
                    /\ kind \in ChildKinds => handling'[kind] = Nil
       /\ \A id \in ChildIds :
             (/\ childCache[id] # Absent
              /\ childStore[id] # Absent
              /\ childCache[id].rv = childStore[id].rv)
                 => ChildDelta(childCache[id], childStore[id], id) = Nil]_vars

\* C12: every cluster scoped child in the store that a reconcile of a parent
\* in namespace ns created has a name that ends in "--ns".
ClusterScopedNamesSuffixed ==
    \A k \in ParentKeys : \A id \in ChildIds :
        (/\ parentStore[k] # Absent
         /\ id.ns = ""
         /\ childStore[id] # Absent
         /\ childStore[id].by = parentStore[k].uid)
            => \E base \in {serverName, databaseName \o "-pv",
                             tensorboardName \o "-pv"} :
                   id.name = base \o "--" \o k[1]

\* C13: the work queue holds at most one pending item per parent key.
OnePendingItemPerKey ==
    \A i \in 1..Len(workqueue.queue) : \A j \in 1..Len(workqueue.queue) :
        i # j => workqueue.queue[i].key # workqueue.queue[j].key

\* The children of the syncers up to and including the one named.
ChildrenUpTo(ns) ==
    [syncHandler |-> {}, charts |-> {}, install |-> {}, append |-> {},
     server |-> ServerChildren(ns),
     database |-> ServerChildren(ns) \cup DatabaseChildren(ns),
     ingress |-> ServerChildren(ns) \cup DatabaseChildren(ns) \cup {ServerIngress(ns)},
     rbac |-> ServerChildren(ns) \cup DatabaseChildren(ns) \cup {ServerIngress(ns)}
                 \cup {ServerClusterRole, ServerClusterRoleBinding},
     tensorboard |-> ChildrenOf(ns),
     status |-> ChildrenOf(ns)]

\* C14: a reconcile for an Add or an Update moves through SubCharts, Server,
\* Database, Ingress, RBAC, Tensorboard and the status update in that order;
\* when a call returns an error the reconcile ends there with the error as its
\* result and the item put aside for a retry: no child of a later step was
\* created, the parent's status is not written, and no worker that recorded
\* a warning event is at a later step.
FixedOrderAbort ==
    [][\A w \in Workers :
          (Steps(w) /\ run[w].item.action # DELETE)
             => /\ pc'[w] # pc[w] =>
                     <<pc[w], pc'[w]>> \in
                        {<<"syncHandler", "charts">>, <<"syncHandler", "idle">>,
                         <<"charts", "install">>, <<"install", "append">>,
                         <<"append", "charts">>,
                         <<"charts", "server">>, <<"append", "server">>,
                         <<"server", "database">>, <<"database", "ingress">>,
                         <<"ingress", "rbac">>, <<"rbac", "tensorboard">>,
                         <<"tensorboard", "status">>, <<"status", "return">>,
                         <<"return", "idle">>, <<"status", "idle">>,
                         <<"server", "idle">>, <<"database", "idle">>,
                         <<"ingress", "idle">>, <<"rbac", "idle">>,
                         <<"tensorboard", "idle">>,
                         <<"server", "panic">>, <<"status", "panic">>}
                /\ run'[w].err \notin {"", "panic"}
                      => /\ pc'[w] = "idle"
                         /\ run'[w].result = "error"
                         /\ run'[w].created
                               \subseteq ChildrenUpTo(SplitNamespace(run[w].item.key))[pc[w]]
                         /\ parentStore' = parentStore
                         /\ run[w].item \in workqueue'.waiting
                /\ pc'[w] \notin {"idle", "panic"} => run'[w].events = <<>>]_vars

FixedOrderAbortWitness ==
    \E w \in Workers : \E ns \in Namespaces :
        /\ run[w].result = "error"
        /\ run[w].err = "NotManaged"
        /\ run[w].created = {ServerServiceAccount(ns), ServerService(ns)}
        /\ childStore[ServerIngress(ns)] = Absent
        /\ childStore[DatabaseDeployment(ns)] = Absent

\* C15: a reconcile for an Add or an Update whose parent the lister does not
\* hold returns success at once: no release is installed, no child and no
\* parent is written, and the item is forgotten: it is not being processed
\* afterwards, its failures are reset, and it is pending or put aside only
\* if a delta or an earlier reconcile had added it again before.
AbsentParentNoOp ==
    [][\A w \in Workers :
          (/\ pc[w] = "syncHandler"
           /\ Steps(w)
           /\ run[w].item.action # DELETE
           /\ parentCache[run[w].item.key] = Absent)
              => /\ pc'[w] = "idle"
                 /\ run'[w].result = "ok"
                 /\ run'[w].created = {} /\ run'[w].updated = {}
                 /\ run'[w].events = <<>>
                 /\ installed' = installed /\ charts' = charts
                 /\ childStore' = childStore /\ parentStore' = parentStore
                 /\ workqueue'.waiting = workqueue.waiting
                 /\ run[w].item \notin workqueue'.processing
                 /\ workqueue'.failures[run[w].item] = 0
                 /\ run[w].item \in workqueue'.dirty
                       => run[w].item \in workqueue.dirty]_vars

AbsentParentNoOpWitness ==
    \E w \in Workers : \E k \in ParentKeys :
        /\ taken = 1
        /\ run[w].result = "ok"
        /\ \A v \in Workers : pc[v] = "idle"
        /\ parentCache[k] = Absent
        /\ workqueue.queue = <<Item(k, DELETE)>>
        /\ workqueue.processing = {}

\* C16: when a reconcile panics, the worker is back at the head of its loop
\* and the item it was processing is put aside for a retry.
PanicRecovered ==
    [][\A w \in Workers :
          (run[w].result = "running" /\ run'[w].result = "panic")
             => /\ pc'[w] = "idle"
                /\ run[w].item \in workqueue'.waiting]_vars

\* C17: while the store holds, under the name of a child of the server
\* syncer, an object the parent does not control, the server syncer of every
\* reconcile of that parent gets no further than that child: it ends in an
\* error and the item is put aside for a retry.
SquatterBlocksReconcile ==
    [][\A w \in Workers :
          (/\ pc[w] = "server"
           /\ Steps(w)
           /\ childStore[ChildAtHand(w)] # Absent
           /\ ~IsControlledBy(childStore[ChildAtHand(w)], run[w].sub)
           /\ (pc'[w] # pc[w] \/ run'[w].i # run[w].i))
              => /\ run'[w].result = "error"
                 /\ run[w].item \in workqueue'.waiting]_vars

\* C18: for every child in the store, cluster scoped ones included, that is
\* controlled by a Submarine the lister holds, the handler of a delta on that
\* child gets a Submarine from the lister, and what it enqueues for it is
\* exactly the item (namespace/name of that Submarine, Update).
ChildDeltaEnqueuesOwner ==
    \A k \in ParentKeys : \A id \in ChildrenOf(k[1]) :
        (/\ parentCache[k] # Absent
         /\ childStore[id] # Absent
         /\ IsControlledBy(childStore[id], parentCache[k]))
            => /\ handleObject(childStore[id], id) # Nil
               /\ enqueueSubmarine(EmptyQueue, handleObject(childStore[id], id),
                                   UPDATE).queue = <<Item(k, UPDATE)>>

\* C19: a delta of a parent Submarine enqueues one item, whose key is the
\* namespace/name of the parent and whose intent is Add for an Add delta,
\* Update for an Update delta and Delete for a Delete delta, be the Delete
\* delta one that carries the object or one that carries a tombstone.
ParentDeltaEnqueued ==
    [][Handles("Submarine")
          => LET delta == Head(notify["Submarine"])
                 intent == IF delta.old = Absent THEN ADD
                           ELSE IF delta.new = Absent THEN DELETE
                           ELSE UPDATE
             IN  /\ Item(delta.id, intent) \in workqueue'.dirty
                 /\ workqueue'.dirty \ workqueue.dirty
                       \subseteq {Item(delta.id, intent)}
                 /\ Len(workqueue'.queue) <= Len(workqueue.queue) + 1]_vars

\* The same for the deltas that carry the object itself.
ObjectDeltaEnqueued ==
    [][(Handles("Submarine") /\ ~IsTombstone(Head(notify["Submarine"]).old))
          => LET delta == Head(notify["Submarine"])
                 intent == IF delta.old = Absent THEN ADD
                           ELSE IF delta.new = Absent THEN DELETE
                           ELSE UPDATE
             IN  /\ Item(delta.id, intent) \in workqueue'.dirty
                 /\ workqueue'.dirty \ workqueue.dirty
                       \subseteq {Item(delta.id, intent)}
                 /\ Len(workqueue'.queue) <= Len(workqueue.queue) + 1]_vars

\* C20: once Run has returned (the queue is shutting down), no worker is in
\* the middle of a reconcile.
RunDrains ==
    workqueue.shuttingDown
        => \A w \in Workers : pc[w] \in {"idle", "panic", "exited"}

\* C21: workers exist, and so take items, only once the Submarine informer
\* has synced; a Run that returned an error launched no worker; the queue is
\* shut down whenever Run has returned; a Run that got past the wait launched
\* exactly threadiness workers.
RunLifecycle ==
    /\ runner.launched > 0 => runner.synced
    /\ \A w \in Workers : (pc[w] # "idle" \/ run[w].result # "none") => runner.synced
    /\ (runner.pc = "returned" /\ runner.err) => runner.launched = 0
    /\ runner.pc = "returned" => workqueue.shuttingDown
    /\ (runner.pc = "stopCh" \/ (runner.pc = "returned" /\ ~runner.err))
           => runner.launched = threadiness
    /\ runner.pc = "WaitForCacheSync" => runner.launched = 0

RunLifecycleWitness ==
    /\ runner.pc = "returned"
    /\ runner.err
    /\ runner.synced
    /\ workqueue.queue # <<>>
    /\ workqueue.shuttingDown
    /\ \A w \in Workers : pc[w] = "idle" /\ run[w].result = "none"

\* The first item taken is being reconciled by w with success at hand, for
\* a parent with storage type host and server replicas 1, and no one else
\* has written to a child.
FirstReconcileEnds(w) ==
    /\ Succeeds(w)
    /\ taken = 1 /\ ext = 0
    /\ run[w].sub.spec.storageType = "host"
    /\ run[w].sub.spec.serverReplicas = 1

\* C22, as the spec words it: the first reconcile of a parent with storage
\* type host and server replicas 1, in a cluster no one else writes to,
\* creates exactly 12 children, each controlled by that parent.
FirstReconcileCreatesTwelve ==
    [][\A w \in Workers :
          FirstReconcileEnds(w)
             => /\ Cardinality(run'[w].created) = 12
                /\ \A id \in run'[w].created :
                      IsControlledBy(childStore'[id], run[w].sub)]_vars

\* C22, amended: that reconcile creates exactly 15 children (three of the
\* server, four of the database, the Ingress, the ClusterRole and its
\* binding, five of the tensorboard), each controlled by that parent.
FirstReconcileCreatesFifteen ==
    [][\A w \in Workers :
          FirstReconcileEnds(w)
             => /\ Cardinality(run'[w].created) = 15
                /\ run'[w].created = ChildrenOf(run[w].sub.ns)
                /\ \A id \in run'[w].created :
                      IsControlledBy(childStore'[id], run[w].sub)]_vars

FirstReconcileWitness ==
    \E w \in Workers :
        /\ run[w].result = "ok"
        /\ taken = 1 /\ ext = 0
        /\ Cardinality(run[w].created) = 15
        /\ \A id \in run[w].created : childStore[id].owner.controller

\* C23: while a reconcile of a key is in flight, the deltas that arrive for
\* that key are held back as one re-queue: no item of that key is ready to be
\* taken before the reconcile in flight has called Done, and at most one
\* item of that key is marked for it.
InFlightDeltasCollapse ==
    \A w \in Workers :
        pc[w] \notin {"idle", "panic", "exited"}
           => /\ \A i \in 1..Len(workqueue.queue) :
                    workqueue.queue[i].key # run[w].item.key
              /\ Cardinality({it \in workqueue.dirty : it.key = run[w].item.key}) <= 1

\* C24: when a reconcile ends in an error its item is put aside for a retry
\* and the rate limiter has counted one more failure of it (up to
\* MaxFailures); when it ends in success the item's failures are reset to
\* zero and the item is not added again; and the failures of an item change
\* in no other step.
FailureCounter ==
    [][/\ \A w \in Workers :
             /\ (run[w].result = "running" /\ run'[w].result = "error")
                   => /\ workqueue'.failures[run[w].item] =
                            (IF workqueue.failures[run[w].item] < MaxFailures
                             THEN workqueue.failures[run[w].item] + 1
                             ELSE MaxFailures)
                      /\ run[w].item \in workqueue'.waiting
                      /\ run[w].item \notin workqueue'.processing
             /\ (run[w].result = "running" /\ run'[w].result = "ok")
                   => /\ workqueue'.failures[run[w].item] = 0
                      /\ workqueue'.waiting = workqueue.waiting
                      /\ run[w].item \in workqueue'.dirty
                             => run[w].item \in workqueue.dirty
       /\ \A it \in Items :
             workqueue'.failures[it] # workqueue.failures[it]
                => \E w \in Workers :
                      /\ run[w].result = "running"
                      /\ run[w].item = it
                      /\ run'[w].result \in {"error", "ok"}]_vars

FailureCounterWitness ==
    \E it \in Items : \E w \in Workers :
        /\ workqueue.failures[it] = MaxFailures
        /\ run[w].result = "error"
        /\ it \in workqueue.waiting

\* The replica count the parent of w's reconcile specifies for the child.
Specified(w, id) ==
    IF id = ServerDeployment(run[w].sub.ns) THEN run[w].sub.spec.serverReplicas
    ELSE IF id = DatabaseDeployment(run[w].sub.ns)
    THEN run[w].sub.spec.databaseReplicas
    ELSE NoReplicas

\* C25: no step of the controller removes a child from the store; a syncer
\* sets out for an Update only of the server or the database Deployment, when
\* the parent specifies a replica count and the lister's copy has another;
\* and a step of the controller changes a child that is in the store only by
\* that Update, which leaves its status and its creation as they are.
ChildrenLeftAlone ==
    [][/\ \A w \in Workers :
             (SyncerCall(w) /\ run[w].phase # "update" /\ run'[w].phase = "update")
                => /\ Specified(w, ChildAtHand(w)) # NoReplicas
                   /\ childCache[ChildAtHand(w)] # Absent
                   /\ childCache[ChildAtHand(w)].replicas # Specified(w, ChildAtHand(w))
       /\ \A id \in ChildIds :
             (childStore[id] # Absent /\ ext' = ext)
                => /\ childStore'[id] # Absent
                   /\ childStore'[id] # childStore[id]
                         => /\ childStore'[id].avail = childStore[id].avail
                            /\ childStore'[id].born = childStore[id].born
                            /\ \E w \in Workers :
                                  /\ SyncerCall(w)
                                  /\ run[w].phase = "update"
                                  /\ id = ChildAtHand(w)
                                  /\ Specified(w, id) # NoReplicas
                                  /\ id \in run'[w].updated]_vars

ChildrenLeftAloneWitness ==
    \E w \in Workers : \E ns \in Namespaces :
        /\ run[w].result = "ok"
        /\ run[w].updated = {DatabaseDeployment(ns)}
        /\ run[w].created = {}
        /\ childStore[ServerDeployment(ns)] # Absent
        /\ childStore[ServerDeployment(ns)].avail = 1
        /\ childStore[DatabaseDeployment(ns)] # Absent
        /\ childStore[DatabaseDeployment(ns)].replicas = 1

\* C26: with a storage type that is neither nfs nor host, no call of the
\* Database syncer and none of the Tensorboard syncer writes a child,
\* whatever the listers hold, and none ends in an error.
InvalidStorageSkips ==
    [][\A w \in Workers :
          (/\ pc[w] \in {"database", "tensorboard"}
           /\ Steps(w)
           /\ run[w].sub.spec.storageType \notin ValidStorageTypes)
              => /\ childStore' = childStore
                 /\ run'[w].result # "error"]_vars

CountReason(evs, reason) ==
    Cardinality({i \in DOMAIN evs : evs[i].reason = reason})

\* C27: a reconcile records a Synced event exactly when it is a reconcile for
\* an Add or an Update of a parent the lister holds that got through every
\* syncer and whose status Update succeeded; a reconcile records at most one
\* ErrResourceExists event and never one together with a Synced event.
SyncedExactlyOnSuccess ==
    [][\A w \in Workers :
          LET evs == run'[w].events
          IN  /\ CountReason(evs, ErrResourceExists) + CountReason(evs, SuccessSynced) <= 1
              /\ IF Succeeds(w)
                 THEN /\ CountReason(evs, SuccessSynced) = 1
                      /\ run[w].sub # Absent
                      /\ run[w].skipped = {}
                      /\ parentStore'[<<run[w].sub.ns, run[w].sub.name>>] # Absent
                 ELSE \/ CountReason(evs, SuccessSynced) = 0
                      \/ evs = run[w].events]_vars

\* A reconcile that created a child has ended in success with one Synced
\* event and nothing else.
SyncedExactlyOnSuccessWitness ==
    \E w \in Workers :
        /\ run[w].result = "ok"
        /\ Len(run[w].events) = 1
        /\ run[w].events[1].reason = SuccessSynced
        /\ run[w].created # {}

\* C28: a Create a syncer issues for a child the lister did not hold, while
\* the store holds an object of that name, leaves that object as it is and
\* fails with AlreadyExists; the reconcile ends in that error, the parent is
\* not written, the item is put aside for a retry, and the call records no
\* event: the ownership of the object is not looked at.
RacyCreateRequeues ==
    [][\A w \in Workers :
          (/\ SyncerCall(w)
           /\ run[w].phase = "create"
           /\ childStore[ChildAtHand(w)] # Absent)
              => /\ childStore' = childStore
                 /\ run'[w].result = "error"
                 /\ run'[w].err = "AlreadyExists"
                 /\ pc'[w] = "idle"
                 /\ parentStore' = parentStore
                 /\ run[w].item \in workqueue'.waiting
                 /\ run[w].item \notin workqueue'.processing
                 /\ workqueue'.failures[run[w].item] > 0
                 /\ run'[w].events = run[w].events]_vars

RacyCreateRequeuesWitness ==
    \E w \in Workers : \E ns \in Namespaces :
        /\ run[w].result = "error"
        /\ run[w].err = "AlreadyExists"
        /\ run[w].events = <<>>
        /\ run[w].created = {ServerServiceAccount(ns), ServerService(ns)}
        /\ ext = 1
        /\ childCache[ServerDeployment(ns)] = Absent
        /\ childStore[ServerDeployment(ns)] # Absent
        /\ childStore[ServerDeployment(ns)].owner = NoOwner

\* An object whose delta handleObject drops, be it delivered as it is or in
\* a tombstone: no controller reference, a controller that is not a
\* Submarine, or a Submarine the lister of its namespace does not hold.
Orphaned(obj, id) ==
    LET object == IF IsTombstone(obj) THEN obj.Obj ELSE obj
    IN  \/ object = Absent
        \/ ~object.owner.controller
        \/ object.owner.kind # "Submarine"
        \/ \A k \in ParentKeys :
              (k[1] = id.ns /\ k[2] = object.owner.name) => parentCache[k] = Absent

\* C29: when the handler of a child informer runs for a delta, and the
\* object the informer held and the object delivered each have no controller
\* reference, a controller that is not of kind Submarine, or a Submarine
\* absent from the parent lister when the handler asks for it, the handler
\* returns and nothing is added to the work queue.
OrphanDeltaDropped ==
    [][\A kind \in ChildKinds :
          (/\ Handles(kind)
           /\ Orphaned(Head(notify[kind]).old, Head(notify[kind]).id)
           /\ Orphaned(Head(notify[kind]).new, Head(notify[kind]).id))
              => /\ workqueue' = workqueue
                 /\ handling'[kind] = Nil]_vars

\* The lister holds the parent and a Deployment a ReplicaSet of the parent's
\* name controls, the handler has run for every delta, and no item is
\* pending.
OrphanDeltaDroppedWitness ==
    \E ns \in Namespaces : \E k \in ParentKeys :
        /\ parentCache[k] # Absent
        /\ childCache[ServerDeployment(ns)] # Absent
        /\ childCache[ServerDeployment(ns)].owner \in ForeignOwners
        /\ watch = NoEvents
        /\ Handled
        /\ workqueue.dirty = {}

\* C30: the Delete branch of syncHandler ranges over c.charts as it is when
\* the range starts, whichever namespace a release was installed in and
\* whether or not the parent it was installed for still exists: every handle
\* of that list is passed to HelmUninstall, and the branch leaves the list
\* empty.
DeleteUninstallsEveryChart ==
    [][\A w \in Workers :
          /\ (pc[w] = "syncHandler" /\ Steps(w) /\ run[w].item.action = DELETE)
                => /\ pc'[w] \in {"uninstall", "clear"}
                   /\ run'[w].snap = charts
          /\ (pc[w] = "uninstall" /\ Steps(w))
                => /\ handles'[run[w].snap[run[w].i].id] > 0
                   /\ <<run[w].snap[run[w].i].name, run[w].snap[run[w].i].ns>>
                         \notin installed'
          /\ (pc[w] = "clear" /\ Steps(w))
                => /\ \A i \in DOMAIN run[w].snap : handles[run[w].snap[i].id] > 0
                   /\ charts' = <<>>
                   /\ pc'[w] = "return"]_vars

\* The Delete item of ns1/a is being processed, a release installed in ns2
\* has been passed to HelmUninstall and is gone, and ns2/b is still in the
\* store and in the lister.
DeleteUninstallsEveryChartWitness ==
    \E w \in Workers :
        /\ pc[w] = "uninstall"
        /\ run[w].item = Item(<<"ns1", "a">>, DELETE)
        /\ run[w].i > 1
        /\ run[w].snap[run[w].i - 1].ns = "ns2"
        /\ handles[run[w].snap[run[w].i - 1].id] = 1
        /\ <<run[w].snap[run[w].i - 1].name, "ns2">> \notin installed
        /\ parentStore[<<"ns2", "b">>] # Absent
        /\ parentCache[<<"ns2", "b">>] # Absent

\* C31: with NumWorkers workers and no Delete processed, c.charts holds no
\* two handles of the same release in the same namespace, and every handle
\* HelmInstallLocalChart returned is in c.charts exactly once, from the
\* append that follows the call on.
InstalledOncePerNamespace ==
    /\ \A i \in DOMAIN charts : \A j \in DOMAIN charts :
          (i # j) => <<charts[i].name, charts[i].ns>> # <<charts[j].name, charts[j].ns>>
    /\ \A h \in DOMAIN handles :
          (\A w \in Workers : ~(pc[w] = "append" /\ run[w].handle.id = h))
              => Cardinality({i \in DOMAIN charts : charts[i].id = h}) = 1

\* C32: whenever a parent is in the store, the listers have caught up with
\* the store, no worker is in a reconcile and the work queue holds nothing
\* (no item pending, none in flight, none waiting for its backoff, none
\* counted as failed), the four releases are installed in the parent's
\* namespace.
ReleasesInstalledWhenIdle ==
    \A k \in DOMAIN parentStore :
        (/\ parentStore[k] # Absent
         /\ CaughtUp
         /\ Handled
         /\ \A w \in Workers : pc[w] = "idle"
         /\ workqueue.queue = <<>>
         /\ workqueue.dirty = {}
         /\ workqueue.processing = {}
         /\ workqueue.waiting = {}
         /\ \A it \in DOMAIN workqueue.failures : workqueue.failures[it] = 0)
          => \A i \in DOMAIN Releases : CheckRelease(Releases[i], k[1])

\* Nothing is pending, in flight or waiting for its backoff, the listers
\* equal the store and the handlers have run for every delta.
QueueIdle ==
    /\ Handled
    /\ workqueue.queue = <<>>
    /\ workqueue.dirty = {}
    /\ workqueue.processing = {}
    /\ workqueue.waiting = {}
    /\ \A w \in Workers : pc[w] = "idle"
    /\ CaughtUp

\* C33: once a reconcile of the parent has ended in success, and with no
\* one but the controller writing to the store, the deliveries of the
\* controller's own Creates and of its status Update lead to a state from
\* which the work queue stays empty and no worker is in a reconcile.
Quiescence == (okRuns >= 1) ~> [](QueueIdle)

QuiescenceWitness ==
    /\ QueueIdle
    /\ okRuns >= 2
    /\ \A id \in ChildIds : childStore[id] # Absent /\ childStore[id].by # 0

\* C34: when another actor has deleted an owned child, namespaced or cluster
\* scoped, and the parent is still there, the child is eventually in the
\* store again, controlled by the parent.
DeletedChildRecreated ==
    \A k \in ParentKeys : \A id \in RecreateTargets :
        (ext > 0 /\ parentStore[k] # Absent /\ childStore[id] = Absent)
            ~> (/\ parentStore[k] # Absent
                /\ childStore[id] # Absent
                /\ IsControlledBy(childStore[id], parentStore[k]))

\* Another actor has deleted the PersistentVolume of the database, which is
\* cluster scoped, and a reconcile of the parent has ended in success after
\* creating it, and nothing else, anew.
DeletedChildRecreatedWitness ==
    \E k \in ParentKeys : \E w \in Workers :
        /\ ext > 0
        /\ run[w].result = "ok"
        /\ run[w].created = {DatabasePV(k[1])}
        /\ childStore[DatabasePV(k[1])] # Absent
        /\ IsControlledBy(childStore[DatabasePV(k[1])], parentStore[k])

\* A reconcile of w is at the first child the server syncer checks, the
\* ServiceAccount, and the store holds it under another parent's control.
SiblingOwnsFirst(w) ==
    /\ pc[w] = "server"
    /\ run[w].i = 1
    /\ childStore[ServerServiceAccount(run[w].sub.ns)] # Absent
    /\ ~IsControlledBy(childStore[ServerServiceAccount(run[w].sub.ns)], run[w].sub)

\* C35, as the claim words it: with two parents in one namespace, every
\* reconcile of the parent that does not control the children fails with an
\* ownership conflict on the first child it checks, the ServiceAccount.
SiblingOwnershipConflict ==
    [][\A w \in Workers :
          (SiblingOwnsFirst(w) /\ pc'[w] # pc[w])
            => /\ run'[w].result = "error"
               /\ run'[w].events =
                     <<WarningExists(ServerServiceAccount(run[w].sub.ns))>>]_vars

\* C35, amended: every such reconcile fails on the first child it checks,
\* with an ownership conflict when the lister holds that child and with the
\* error of the Create when it does not yet; it creates and updates no
\* child, and no step of any reconcile changes the owner reference of a
\* child in the store.
SiblingNeverTakesOver ==
    [][/\ \A w \in Workers :
            (SiblingOwnsFirst(w) /\ Steps(w))
              => /\ childStore' = childStore
                 /\ run'[w].created = {}
                 /\ run'[w].updated = {}
                 /\ \/ /\ childCache[ServerServiceAccount(run[w].sub.ns)] = Absent
                       /\ run[w].phase = "get"
                       /\ pc'[w] = "server"
                       /\ run'[w].i = 1
                       /\ run'[w].phase = "create"
                    \/ /\ pc'[w] = "idle"
                       /\ run'[w].result = "error"
                       /\ \/ /\ run[w].phase = "get"
                             /\ run'[w].err = "NotManaged"
                             /\ run'[w].events =
                                   <<WarningExists(ServerServiceAccount(run[w].sub.ns))>>
                          \/ /\ run[w].phase = "create"
                             /\ run'[w].err = "AlreadyExists"
                             /\ run'[w].events = <<>>
       /\ \A id \in DOMAIN childStore :
            (childStore[id] # Absent /\ childStore'[id] # Absent)
              => childStore'[id].owner = childStore[id].owner]_vars

\* Every child is in the store under the control of ns1/a, and a reconcile
\* of ns1/b has ended in an ownership conflict with one warning and no write.
SiblingNeverTakesOverWitness ==
    \E w \in Workers :
        /\ run[w].result = "error"
        /\ run[w].err = "NotManaged"
        /\ Len(run[w].events) = 1
        /\ run[w].created = {}
        /\ parentCache[<<"ns1", "b">>] # Absent
        /\ \A id \in DOMAIN childStore :
              childStore[id] # Absent /\ childStore[id].owner.name = "a"
        /\ workqueue.failures[Item(<<"ns1", "b">>, ADD)] > 0

\* C36: whenever DeleteFunc of the Submarine informer runs for a parent the
\* informer has taken out of the lister, be it on a Delete delta that
\* carries the object or on one that carries a tombstone, the item
\* (namespace/name, Delete) is queued.
TombstoneEnqueuesDelete ==
    [][(Handles("Submarine") /\ Head(notify["Submarine"]).new = Absent)
            => Item(Head(notify["Submarine"]).id, DELETE) \in workqueue'.dirty]_vars

\* The same for the Delete delta that carries the object itself.
DeleteDeltaEnqueuesDelete ==
    [][(/\ Handles("Submarine")
        /\ Head(notify["Submarine"]).new = Absent
        /\ ~IsTombstone(Head(notify["Submarine"]).old))
            => Item(Head(notify["Submarine"]).id, DELETE) \in workqueue'.dirty]_vars

\* C37: what syncHandler does with an item of intent Add it does with one
\* of intent Update: either takes the reconcile branch, where the lister
\* alone decides between the return of nil for an absent parent and the
\* reconcile of the parent it holds, which starts with the same locals and
\* goes on without a look at the intent; Delete alone takes the uninstall
\* branch, and no worker is in a reconcile with a Delete item or in the
\* uninstall with another.
AddAndUpdateAlike ==
    [][\A w \in Workers :
          /\ (pc[w] = "syncHandler" /\ Steps(w) /\ run[w].item.action \in {ADD, UPDATE})
                => IF parentCache[run[w].item.key] = Absent
                   THEN /\ pc'[w] = "idle"
                        /\ run'[w] = Returned(NewRun(run[w].item), "ok")
                        /\ workqueue' = Forgotten(workqueue, run[w].item)
                   ELSE /\ pc'[w] = "charts"
                        /\ [run'[w] EXCEPT !.item = Nil, !.clean = FALSE, !.second = FALSE]
                             = [NewRun(Nil) EXCEPT
                                  !.result = "running",
                                  !.sub = parentCache[run[w].item.key],
                                  !.i = 1]
                        /\ workqueue' = workqueue
          /\ (pc[w] = "syncHandler" /\ Steps(w) /\ run[w].item.action = DELETE)
                => pc'[w] \in {"uninstall", "clear"}
          /\ pc'[w] \in {"charts", "install", "append", "server", "database",
                         "ingress", "rbac", "tensorboard", "status"}
                => run'[w].item.action \in {ADD, UPDATE}
          /\ pc'[w] \in {"uninstall", "clear"} => run'[w].item.action = DELETE]_vars

\* A worker starts the reconcile of an Update item with the locals an Add
\* item starts with, after an Add item of the key has been reconciled and
\* has failed.
AddAndUpdateAlikeWitness ==
    \E w \in Workers :
        /\ pc[w] = "charts"
        /\ run[w].i = 1
        /\ run[w].item = Item(<<"ns1", "a">>, UPDATE)
        /\ run[w].sub = parentCache[<<"ns1", "a">>]
        /\ workqueue.failures[Item(<<"ns1", "a">>, ADD)] > 0

\* The worker is between the Get and the Done of an item.
InFlight(w) ==
    pc[w] \in {"syncHandler", "charts", "install", "append", "server", "database",
               "ingress", "rbac", "tensorboard", "status", "uninstall", "clear",
               "return"}

\* The queue as Get and one Done per item leave it: the items marked in
\* flight are those of the workers inside processNextWorkItem, and an item
\* waits in the queue once if it is dirty and not in flight, and not at all
\* otherwise.
DonePairsGet ==
    /\ workqueue.processing = {run[w].item : w \in {v \in Workers : InFlight(v)}}
    /\ \A i, j \in 1..Len(workqueue.queue) :
          workqueue.queue[i] = workqueue.queue[j] => i = j
    /\ {workqueue.queue[i] : i \in 1..Len(workqueue.queue)}
          = workqueue.dirty \ workqueue.processing

\* C38: every item a worker got is released once when processNextWorkItem
\* is over, on success, on an error of syncHandler and on a panic alike; a
\* worker leaves its loop only when the queue is shut down and drained; and
\* a reconcile that ends in an error leaves its worker in the loop with the
\* item out of flight and, unless the queue is shutting down, put aside for
\* its backoff.
DoneOnEveryPath ==
    [][/\ DonePairsGet'
       /\ \A w \in Workers :
            /\ (pc[w] # "exited" /\ pc'[w] = "exited")
                 => workqueue.shuttingDown /\ workqueue.queue = <<>>
            /\ (run'[w] # run[w] /\ run'[w].result = "error")
                 => /\ pc'[w] = "idle"
                    /\ workqueue'.processing = workqueue.processing \ {run[w].item}
                    /\ (~workqueue.shuttingDown => run[w].item \in workqueue'.waiting)
            /\ (InFlight(w) /\ ~InFlight(w)')
                 => run[w].item \notin workqueue'.processing]_vars

\* A reconcile has ended in an error: its worker is back in the loop, no
\* item is in flight and the failed item waits for its backoff.
DoneOnEveryPathWitness ==
    \E w \in Workers :
        /\ run[w].result = "error"
        /\ pc[w] = "idle"
        /\ workqueue.processing = {}
        /\ \E it \in workqueue.waiting : workqueue.failures[it] > 0
====
